---- MODULE Spec2Model ----
(***************************************************************************)
(* A model of the @nick/comrak binding (src/src/*.ts, src/mod.ts) and of   *)
(* the Markdown engine it calls through the wasm module.                    *)
(*                                                                         *)
(* Conventions.                                                            *)
(*  - A string of the program is a sequence of tokens (<<"<", "xmp", ">">> *)
(*    is the text "<xmp>"); "" is << >>.  A Markdown text is a sequence of *)
(*    blocks separated by blank lines, each block a sequence of tokens.    *)
(*  - A JavaScript value of an option field is a string: "true", "false",  *)
(*    "null", "undefined", a literal such as "---", or the name of a       *)
(*    callable / object value (see the tables below).                      *)
(*  - An object is a function from its own property names to values; an    *)
(*    absent property is a name outside DOMAIN.                            *)
(*  - A node index of the AST is the JavaScript index plus one; 0 stands   *)
(*    for `undefined`.                                                     *)
(***************************************************************************)
EXTENDS Integers, Sequences, FiniteSets, TLC

VARIABLES
    defaultOptions, \* the module-level `defaultOptions` object of options.ts
    md,             \* the Markdown text the caller holds
    options,        \* the options object the caller holds
    ast,            \* the AST the last parseMarkdown call returned
    result,         \* the outcome of the last call
    rendered,       \* per renderer, the first output obtained from `ast`
    heap,           \* the objects of defaultOptions and of Options.default()
    other           \* what a second caller holds while the first one calls

vars == <<defaultOptions, md, options, ast, result, rendered, heap, other>>

\* Longest Markdown text, in blocks.
MaxBlocks == 2

Empty == [k \in {} |-> "undefined"]

(***************************************************************************)
(* options.ts: defaultOptions, Options.default()                           *)
(***************************************************************************)
DefaultOptionsValue ==
    [ extension |->
        [ autolink |-> "false", descriptionLists |-> "false",
          footnotes |-> "false", inlineFootnotes |-> "false",
          frontMatterDelimiter |-> "null", headerIDs |-> "null",
          strikethrough |-> "false", superscript |-> "false",
          table |-> "false", tagfilter |-> "false", tasklist |-> "false",
          multilineBlockQuotes |-> "false", alerts |-> "false",
          mathDollars |-> "false", mathCode |-> "false",
          wikilinksTitleBeforePipe |-> "false",
          wikilinksTitleAfterPipe |-> "false", underline |-> "false",
          subscript |-> "false", spoiler |-> "false", shortcodes |-> "false",
          greentext |-> "false", cjkFriendlyEmphasis |-> "false",
          linkURLRewriter |-> "null", imageURLRewriter |-> "null" ],
      parse |->
        [ defaultInfoString |-> "null", smart |-> "false",
          relaxedTasklistMatching |-> "false", relaxedAutolinks |-> "false",
          ignoreSetext |-> "false", brokenLinkCallback |-> "null",
          leaveFootnoteDefinitions |-> "false", escapedCharSpans |-> "false" ],
      render |->
        [ escape |-> "false", githubPreLang |-> "false",
          hardbreaks |-> "false", unsafe |-> "false", width |-> "0",
          fullInfoString |-> "false", listStyle |-> "dash",
          sourcepos |-> "false", escapedCharSpans |-> "false",
          ignoreEmptyLinks |-> "false", gfmQuirks |-> "false",
          preferFenced |-> "false", figureWithCaption |-> "false",
          tasklistClasses |-> "false", olWidth |-> "0",
          experimentalMinimizeCommonmark |-> "false" ],
      plugins |->
        [ render |->
            [ codefenceSyntaxHighlighter |-> "null",
              headingAdapter |-> "null" ] ] ]

\* The boolean extension flags of defaultOptions.extension.
ExtensionFlags ==
    DOMAIN DefaultOptionsValue.extension
        \ {"frontMatterDelimiter", "headerIDs", "linkURLRewriter",
           "imageURLRewriter"}

\* _internal.ts cloneDeep, on an Options object: every nested plain object
\* is rebuilt key by key, every other value is returned as it is.
cloneDeep(obj) ==
    [ g \in DOMAIN obj |->
        IF g = "plugins"
        THEN [ p \in DOMAIN obj[g] |->
                 [ k \in DOMAIN obj[g][p] |-> obj[g][p][k] ] ]
        ELSE [ k \in DOMAIN obj[g] |-> obj[g][k] ] ]

\* Options.default()
OptionsDefault(dflt) == cloneDeep(dflt)

\* The objects behind defaultOptions.  `objects` is the store, an address
\* is an index into it; a property holds a primitive or the address of an
\* object.
Ref(a) == [ ref |-> a ]

Prim(s) == [ prim |-> s ]

IsRef(v) == "ref" \in DOMAIN v

\* The address of the defaultOptions object.
DefaultsAddress == 1

\* defaultOptions and its nested objects (options.ts, lines 1105-1167).
DefaultsObjects ==
    LET Leaf(g) == [ k \in DOMAIN g |-> Prim(g[k]) ]
    IN  << [ extension |-> Ref(2), parse |-> Ref(3), render |-> Ref(4),
             plugins |-> Ref(5) ],
           Leaf(DefaultOptionsValue.extension),
           Leaf(DefaultOptionsValue.parse),
           Leaf(DefaultOptionsValue.render),
           [ render |-> Ref(6) ],
           Leaf(DefaultOptionsValue.plugins.render) >>

\* The content of the object at address a, nested objects included.
RECURSIVE ValueAt(_, _)
ValueAt(objects, a) ==
    [ k \in DOMAIN objects[a] |->
        IF IsRef(objects[a][k]) THEN ValueAt(objects, objects[a][k].ref)
        ELSE objects[a][k].prim ]

\* `{ ...obj }`: a new object with the properties of obj, the nested
\* objects the same ones.
cloneDeepOneLevel(objects, v) ==
    IF ~IsRef(v) THEN [ objects |-> objects, value |-> v ]
    ELSE [ objects |-> Append(objects, objects[v.ref]),
           value |-> Ref(Len(objects) + 1) ]

\* cloneDeep (_internal.ts) on the store: a primitive is returned as it
\* is; of an object each own property is cloned into a new object.  No
\* array occurs in defaultOptions.
RECURSIVE cloneDeepIn(_, _), CloneKeys(_, _, _, _)
cloneDeepIn(objects, v) ==
    IF ~IsRef(v) THEN [ objects |-> objects, value |-> v ]
    ELSE CloneKeys(objects, objects[v.ref], DOMAIN objects[v.ref],
                   [ k \in {} |-> Prim("undefined") ])

\* `for (const key in obj) cloned[key] = cloneDeep(obj[key])`
CloneKeys(objects, obj, keys, cloned) ==
    IF keys = {}
    THEN [ objects |-> Append(objects, cloned), value |-> Ref(Len(objects) + 1) ]
    ELSE LET key == CHOOSE k \in keys : TRUE
             Set(c) == CloneKeys(c.objects, obj, keys \ {key},
                                 [ k \in DOMAIN cloned \cup {key} |->
                                     IF k = key THEN c.value ELSE cloned[k] ])
         IN  Set(cloneDeepIn(objects, obj[key]))

\* `Options.default = () => cloneDeep(defaultOptions)`
OptionsDefaultIn(objects) == cloneDeepIn(objects, Ref(DefaultsAddress))

\* The address `o[path[1]][path[2]]...` of the object at address a; 0 when
\* a step of the path is not an object (the access throws a TypeError).
RECURSIVE Follow(_, _, _)
Follow(objects, a, path) ==
    IF path = << >> THEN a
    ELSE IF path[1] \in DOMAIN objects[a] /\ IsRef(objects[a][path[1]])
         THEN Follow(objects, objects[a][path[1]].ref, Tail(path))
         ELSE 0

\* `obj[k] = v` on the object at address a
SetProperty(objects, a, k, v) ==
    [ objects EXCEPT ![a] = [ key \in DOMAIN @ \cup {k} |->
                                IF key = k THEN Prim(v) ELSE @[key] ] ]

\* `delete obj[k]` on the object at address a
DeleteProperty(objects, a, k) ==
    [ objects EXCEPT ![a] = [ key \in DOMAIN @ \ {k} |-> @[key] ] ]

(***************************************************************************)
(* JavaScript values held by the callback and plugin fields                *)
(***************************************************************************)
\* Broken-link callbacks: functions, and objects with a `resolve` method.
\* The suffix is what the call does: return null, return undefined, return
\* a {url, title} object, throw.
BLCFunctions == {"fn.none", "fn.undef", "fn.ok", "fn.throw"}
BLCObjects == {"obj.none", "obj.undef", "obj.ok", "obj.throw"}
\* The function `(ref) => blc.resolve(ref)` collectOptions builds.
BLCWrappers == {"wrap.none", "wrap.undef", "wrap.ok", "wrap.throw"}

\* URL rewriters: functions, and objects with a `toHTML` method.
RWFunctions == {"fn.rw", "fn.rwthrow"}
RWObjects == {"obj.rw", "obj.rwthrow"}
RWWrappers == {"wrap.rw", "wrap.rwthrow"}

\* Heading adapters: instances of the wasm HeadingAdapter class, plain
\* objects with `enter` and `exit`, and a plain object without `exit`.
HAInstances == {"HeadingAdapter.ok", "HeadingAdapter.throw"}
HAObjects == {"ha.ok", "ha.throw"}
HABuilt == {"new.ha.ok", "new.ha.throw"}

\* Syntax highlighters: instances of the wasm class, and plain objects with
\* a `highlight` function: with both wrappers (sh.ok, sh.throw), without
\* `pre`, without `code`, and with neither (sh.bare).
SHInstances == {"SyntaxHighlighterAdapter.ok", "SyntaxHighlighterAdapter.throw"}
SHObjects == {"sh.ok", "sh.throw", "sh.nopre", "sh.nocode", "sh.bare"}
SHBuilt == {"new.sh.ok", "new.sh.throw", "new.sh.nopre", "new.sh.nocode",
            "new.sh.bare"}

\* Values of the wrong shape: a plain object without the method, a number.
BadValues == {"obj.bad", "42"}

\* Plugin objects of the wrong shape: a highlighter with a `highlight`
\* function whose `pre` (respectively `code`) is a string, and a heading
\* adapter with `enter` and without `exit`.
SHMalformed == {"sh.badpre", "sh.badcode"}
HAMalformed == {"ha.noexit"}

Functions == BLCFunctions \cup BLCWrappers \cup RWFunctions \cup RWWrappers

\* `typeof v`
TypeOf(v) ==
    CASE v \in Functions -> "function"
      [] v = "undefined" -> "undefined"
      [] v \in {"true", "false"} -> "boolean"
      [] v \in {"42", "0"} -> "number"
      [] v \in {"null", "obj.bad"} \cup BLCObjects \cup RWObjects
               \cup HAObjects \cup HAInstances \cup HABuilt
               \cup SHObjects \cup SHInstances \cup SHBuilt
               \cup SHMalformed \cup HAMalformed -> "object"
      [] OTHER -> "string"

\* `if (v)`
Truthy(v) == v \notin {"null", "undefined", "false", "0", ""}

\* `typeof v[m]` for a method name m
TypeOfMethod(v, m) ==
    CASE m = "resolve" /\ v \in BLCObjects -> "function"
      [] m = "toHTML" /\ v \in RWObjects -> "function"
      [] m \in {"enter", "exit"} /\ v \in HAObjects -> "function"
      [] m = "enter" /\ v \in HAMalformed -> "function"
      [] m = "highlight" /\ v \in SHObjects \cup SHMalformed -> "function"
      [] m = "pre" /\ v = "sh.badpre" -> "string"
      [] m = "code" /\ v = "sh.badcode" -> "string"
      [] m \in {"pre", "code"} /\ v \in SHMalformed -> "function"
      [] m = "pre" /\ v \in SHObjects \ {"sh.nopre", "sh.bare"} -> "function"
      [] m = "code" /\ v \in SHObjects \ {"sh.nocode", "sh.bare"} -> "function"
      [] OTHER -> "undefined"

\* What calling the callable value does.
Behaviour(v) ==
    CASE v \in {"fn.none", "obj.none", "wrap.none"} -> "none"
      [] v \in {"fn.undef", "obj.undef", "wrap.undef"} -> "undef"
      [] v \in {"fn.ok", "obj.ok", "wrap.ok"} -> "ok"
      [] v \in {"fn.rw", "obj.rw", "wrap.rw"} -> "rw"
      [] v \in {"fn.throw", "obj.throw", "wrap.throw", "fn.rwthrow",
                "obj.rwthrow", "wrap.rwthrow", "HeadingAdapter.throw",
                "ha.throw", "new.ha.throw", "SyntaxHighlighterAdapter.throw",
                "sh.throw", "new.sh.throw"} -> "throw"
      [] OTHER -> "ok"

(***************************************************************************)
(* _internal.ts: collectOptions                                            *)
(***************************************************************************)
\* `{...a, ...b}`: the own properties of a, then those of b over them.  A
\* property of b that holds `undefined` is an own property and is copied.
Spread(a, b) ==
    [ k \in (DOMAIN a) \cup (DOMAIN b) |-> IF k \in DOMAIN b THEN b[k] ELSE a[k] ]

\* `...o?.g` inside an object literal: nothing when o has no group g.
Group(o, g) == IF g \in DOMAIN o THEN o[g] ELSE Empty

\* `let { k = dflt } = obj`: the default replaces an absent or undefined k.
Destructure(obj, k, dflt) ==
    IF k \in DOMAIN obj /\ obj[k] # "undefined" THEN obj[k] ELSE dflt

\* The object literal without `...options?.extension`: the extension group
\* is that of the defaults.
MergedOptionsWithoutExtension(o, d) ==
    [ extension |-> d.extension,
      parse |-> Spread(d.parse, Group(o, "parse")),
      render |-> Spread(d.render, Group(o, "render")),
      plugins |->
          Spread(Spread(d.plugins, Group(o, "plugins")),
                 [ render |-> Spread(d.plugins.render,
                                     Group(Group(o, "plugins"), "render")) ]) ]

\* The object literal without `...options?.render`: the render group is
\* that of the defaults.
MergedOptionsWithoutRender(o, d) ==
    [ extension |-> Spread(d.extension, Group(o, "extension")),
      parse |-> Spread(d.parse, Group(o, "parse")),
      render |-> d.render,
      plugins |->
          Spread(Spread(d.plugins, Group(o, "plugins")),
                 [ render |-> Spread(d.plugins.render,
                                     Group(Group(o, "plugins"), "render")) ]) ]

\* The object literal without `...options?.parse`: the parse group is that
\* of the defaults.
MergedOptionsWithoutParse(o, d) ==
    [ extension |-> Spread(d.extension, Group(o, "extension")),
      parse |-> d.parse,
      render |-> Spread(d.render, Group(o, "render")),
      plugins |->
          Spread(Spread(d.plugins, Group(o, "plugins")),
                 [ render |-> Spread(d.plugins.render,
                                     Group(Group(o, "plugins"), "render")) ]) ]

\* The object literal of collectOptions (lines 34-56), `plugins` included.
MergedOptions(o, d) ==
    [ extension |-> Spread(d.extension, Group(o, "extension")),
      parse |-> Spread(d.parse, Group(o, "parse")),
      render |-> Spread(d.render, Group(o, "render")),
      plugins |->
          Spread(Spread(d.plugins, Group(o, "plugins")),
                 [ render |-> Spread(d.plugins.render,
                                     Group(Group(o, "plugins"), "render")) ]) ]

\* A wrapper that swallows what the method throws.
WrapMethodCatching(v) ==
    CASE v \in {"obj.throw", "obj.none"} -> "wrap.none"
      [] v = "obj.undef" -> "wrap.undef"
      [] v = "obj.ok" -> "wrap.ok"
      [] v \in {"obj.rw", "obj.rwthrow"} -> "wrap.rw"

\* `(ref) => blc.resolve(ref)`, `(url) => rewriter.toHTML(url)`
WrapMethod(v) ==
    CASE v = "obj.none" -> "wrap.none"
      [] v = "obj.undef" -> "wrap.undef"
      [] v = "obj.ok" -> "wrap.ok"
      [] v = "obj.throw" -> "wrap.throw"
      [] v = "obj.rw" -> "wrap.rw"
      [] v = "obj.rwthrow" -> "wrap.rwthrow"

\* A normalisation that drops every object.
NormalizeCallbackDropsObjects(v, method) ==
    IF Truthy(v) /\ TypeOf(v) # "function" THEN "null" ELSE v

\* The same without the truthiness test: `typeof null` is "object", and
\* reading a property of null throws a TypeError.
NormalizeCallbackUnguarded(v, method) ==
    IF TypeOf(v) # "function"
    THEN IF TypeOf(v) = "object"
         THEN IF v = "null" THEN "TypeError"
              ELSE IF TypeOfMethod(v, method) = "function" THEN WrapMethod(v)
              ELSE "null"
         ELSE "null"
    ELSE v

\* Lines 59-69 (and 76-86, 88-98 with `toHTML`): a truthy value that is no
\* function becomes a wrapper around its method, or null without one.
NormalizeCallback(v, method) ==
    IF Truthy(v) /\ TypeOf(v) # "function"
    THEN IF TypeOf(v) = "object" /\ TypeOfMethod(v, method) = "function"
         THEN WrapMethod(v)
         ELSE "null"
    ELSE v

\* `new HeadingAdapter(ha.enter.bind(ha), ha.exit.bind(ha))`
NewHeadingAdapter(ha) ==
    CASE ha = "ha.ok" -> "new.ha.ok"
      [] ha = "ha.throw" -> "new.ha.throw"

\* `attrs` is an object in insertion order, a sequence of <<name, value>>.
\* `JSON.stringify(v).replace(/^"|"$/g, "")` on a string value: the quote
\* and the backslash get a backslash, the line feed becomes `\n`, and the
\* enclosing quotes are removed.
JSONEscapeToken(t) ==
    CASE t = "\"" -> "\\\""
      [] t = "\\" -> "\\\\"
      [] t = "\n" -> "\\n"
      [] OTHER -> t

JSONStringifyStripped(v) == [ i \in 1..Len(v) |-> JSONEscapeToken(v[i]) ]

\* serializeAttrs (lines 15-20)
RECURSIVE serializeAttrs(_)
serializeAttrs(attrs) ==
    IF attrs = << >> THEN << >>
    ELSE serializeAttrs(SubSeq(attrs, 1, Len(attrs) - 1))
             \o <<" ", attrs[Len(attrs)][1], "=\"">>
             \o JSONStringifyStripped(attrs[Len(attrs)][2]) \o <<"\"">>

\* defaultOpenTag(tag)(attrs) (lines 21-23)
defaultOpenTag(tag, attrs) == <<"<" \o tag>> \o serializeAttrs(attrs) \o <<">">>

\* An adapter built with the built-in wrapper in both places, whatever the
\* plugin object supplies.
NewSyntaxHighlighterAdapterAlwaysDefault(sh) ==
    IF sh = "sh.throw" THEN "new.sh.throw" ELSE "new.sh.bare"

\* `new SyntaxHighlighterAdapter(sh.highlight.bind(sh),
\*  sh.pre?.bind(sh) ?? defaultOpenTag("pre"),
\*  sh.code?.bind(sh) ?? defaultOpenTag("code"))`
\* `sh.pre?.bind(sh)` is undefined for a `pre` that is undefined or null;
\* for any other `pre` it calls `sh.pre.bind`, which is undefined unless
\* `pre` is a function, and calling undefined throws a TypeError.
NewSyntaxHighlighterAdapter(sh) ==
    CASE \E m \in {"pre", "code"} :
             TypeOfMethod(sh, m) \notin {"function", "undefined"} -> "TypeError"
      [] sh = "sh.ok" -> "new.sh.ok"
      [] sh = "sh.throw" -> "new.sh.throw"
      [] sh = "sh.nopre" -> "new.sh.nopre"
      [] sh = "sh.nocode" -> "new.sh.nocode"
      [] sh = "sh.bare" -> "new.sh.bare"

\* The adapter was built with defaultOpenTag(m) as its wrapper m.
HoldsDefault(sa, m) ==
    \/ m = "pre" /\ sa \in {"new.sh.nopre", "new.sh.bare"}
    \/ m = "code" /\ sa \in {"new.sh.nocode", "new.sh.bare"}

\* What wrapper m of the adapter returns for attrs: the tag of the built-in
\* wrapper, or whatever the method of the plugin returns.
AdapterTag(sa, m, attrs) ==
    IF HoldsDefault(sa, m) THEN defaultOpenTag(m, attrs) ELSE <<m \o "()">>

\* Lines 100-116.
SyntaxAdapterOf(plugins) ==
    LET sh == plugins.render.codefenceSyntaxHighlighter
    IN  IF ~Truthy(sh) THEN "null"
        ELSE IF sh \in SHInstances THEN sh
        ELSE IF TypeOf(sh) = "object" /\ TypeOfMethod(sh, "highlight") = "function"
        THEN NewSyntaxHighlighterAdapter(sh)
        ELSE "null"

\* A collectOptions that accepts instances of the wasm class only: a plain
\* object with `enter` and `exit` is dropped.
HeadingAdapterOfInstancesOnly(plugins) ==
    LET ha == plugins.render.headingAdapter
    IN  IF ~Truthy(ha) THEN "null"
        ELSE IF ha \in HAInstances THEN ha
        ELSE "null"

\* Lines 118-132.
HeadingAdapterOf(plugins) ==
    LET ha == plugins.render.headingAdapter
    IN  IF ~Truthy(ha) THEN "null"
        ELSE IF ha \in HAInstances THEN ha
        ELSE IF /\ TypeOf(ha) = "object"
                /\ TypeOfMethod(ha, "enter") = "function"
                /\ TypeOfMethod(ha, "exit") = "function"
        THEN NewHeadingAdapter(ha)
        ELSE "null"

\* collectOptions(options): the tuple it returns, by name.  `d` is the
\* current content of the module-level defaultOptions.  `threw` says that a
\* statement of the function threw a TypeError, which ends the call.
collectOptions(o, d) ==
    LET dflt == OptionsDefault(d)
        merged == MergedOptions(o, dflt)
        opts == [ g \in (DOMAIN merged) \ {"plugins"} |-> merged[g] ]
        brokenLinkCallback ==
            NormalizeCallback(
                Destructure(opts.parse, "brokenLinkCallback", "null"), "resolve")
        imageURLRewriter ==
            NormalizeCallback(
                Destructure(opts.extension, "imageURLRewriter", "null"), "toHTML")
        linkURLRewriter ==
            NormalizeCallback(
                Destructure(opts.extension, "linkURLRewriter", "null"), "toHTML")
        syntaxAdapter == SyntaxAdapterOf(merged.plugins)
        headingAdapter == HeadingAdapterOf(merged.plugins)
    IN  [ opts |-> opts,
          syntaxAdapter |-> syntaxAdapter,
          headingAdapter |-> headingAdapter,
          brokenLinkCallback |-> brokenLinkCallback,
          imageURLRewriter |-> imageURLRewriter,
          linkURLRewriter |-> linkURLRewriter,
          threw |-> "TypeError" \in { brokenLinkCallback, imageURLRewriter,
                                      linkURLRewriter, syntaxAdapter,
                                      headingAdapter } ]

(***************************************************************************)
(* The engine: the AST (nodes.ts AST, AST.Node)                            *)
(***************************************************************************)
Punct == {"!", "[", "]", "(", ")", "<", ">", "*", "**", "***", "_", "#", "##",
          "\\", "\"", ":", "&", "---", "-----", "~~~"}

\* A token that is plain text (a word, a tag name, a label, a URL).
Word(t) == t \notin Punct

\* What a broken-link callback returns when it resolves a reference.
ResolvedURL == "U"
ResolvedTitle == "T"

\* A node of the flat node store.  `value` is the variant; the payload
\* fields a variant does not use keep their empty value.
NodeData(value) ==
    [ value |-> value, literal |-> << >>, level |-> 0, url |-> "",
      title |-> "", info |-> << >>, name |-> "", ix |-> 0,
      tight |-> FALSE, is_task_list |-> FALSE, symbol |-> "null",
      parent |-> 0, first_child |-> 0, last_child |-> 0,
      previous_sibling |-> 0, next_sibling |-> 0 ]

\* The parser builds a tree [d |-> node data, kids |-> sequence of trees]
\* and stores it in the arena when the document is complete.
Leaf(value, literal) ==
    [ d |-> [NodeData(value) EXCEPT !.literal = literal], kids |-> << >> ]

Branch(value, kids) == [ d |-> NodeData(value), kids |-> kids ]

LinkNode(value, url, title, kids) ==
    [ d |-> [NodeData(value) EXCEPT !.url = url, !.title = title],
      kids |-> kids ]

HeadingNode(level, kids) ==
    [ d |-> [NodeData("Heading") EXCEPT !.level = level], kids |-> kids ]

\* A fenced code block with the info string of its opening fence.
CodeNode(info, literal) ==
    [ d |-> [NodeData("CodeBlock") EXCEPT !.info = info, !.literal = literal],
      kids |-> << >> ]

RECURSIVE TreeSize(_)
TreeSize(t) ==
    LET RECURSIVE Sum(_)
        Sum(i) == IF i > Len(t.kids) THEN 0 ELSE TreeSize(t.kids[i]) + Sum(i + 1)
    IN  1 + Sum(1)

\* A store in which a node is not told its previous sibling.
RECURSIVE FlattenForwardOnly(_, _, _, _, _)
FlattenForwardOnly(t, at, parent, prev, next) ==
    LET n == Len(t.kids)
        RECURSIVE Start(_)
        Start(i) == IF i = 1 THEN at + 1 ELSE Start(i - 1) + TreeSize(t.kids[i - 1])
        node == [ t.d EXCEPT !.parent = parent,
                             !.next_sibling = next,
                             !.first_child = IF n = 0 THEN 0 ELSE Start(1),
                             !.last_child = IF n = 0 THEN 0 ELSE Start(n) ]
        RECURSIVE Kids(_)
        Kids(i) ==
            IF i > n THEN << >>
            ELSE FlattenForwardOnly(t.kids[i], Start(i), at, 0,
                                    IF i = n THEN 0 ELSE Start(i + 1))
                 \o Kids(i + 1)
    IN  <<node>> \o Kids(1)

\* The nodes of tree t in document order, t itself at index `at`.
RECURSIVE Flatten(_, _, _, _, _)
Flatten(t, at, parent, prev, next) ==
    LET n == Len(t.kids)
        RECURSIVE Start(_)
        Start(i) == IF i = 1 THEN at + 1 ELSE Start(i - 1) + TreeSize(t.kids[i - 1])
        node == [ t.d EXCEPT !.parent = parent,
                             !.previous_sibling = prev,
                             !.next_sibling = next,
                             !.first_child = IF n = 0 THEN 0 ELSE Start(1),
                             !.last_child = IF n = 0 THEN 0 ELSE Start(n) ]
        RECURSIVE Kids(_)
        Kids(i) ==
            IF i > n THEN << >>
            ELSE Flatten(t.kids[i], Start(i), at,
                         IF i = 1 THEN 0 ELSE Start(i - 1),
                         IF i = n THEN 0 ELSE Start(i + 1))
                 \o Kids(i + 1)
    IN  <<node>> \o Kids(1)

\* The children of node i, in sibling order.
RECURSIVE SiblingsFrom(_, _)
SiblingsFrom(nodes, i) ==
    IF i = 0 THEN << >>
    ELSE <<i>> \o SiblingsFrom(nodes, nodes[i].next_sibling)

Children(nodes, i) == SiblingsFrom(nodes, nodes[i].first_child)

(***************************************************************************)
(* The engine: inline parser                                               *)
(***************************************************************************)
\* Adjacent Text nodes are one Text node.
RECURSIVE MergeText(_)
MergeText(kids) ==
    IF Len(kids) < 2 THEN kids
    ELSE IF kids[1].d.value = "Text" /\ kids[2].d.value = "Text"
    THEN MergeText(<<Leaf("Text", kids[1].d.literal \o kids[2].d.literal)>>
                   \o SubSeq(kids, 3, Len(kids)))
    ELSE <<kids[1]>> \o MergeText(Tail(kids))

\* The engine calls a callback slot when it holds a function.
Callable(cb) == TypeOf(cb) = "function"

\* A bracketed span at the head of t (t[1] = "["), as a link or an image:
\* [kids, used, calls, threw].  `refs` maps the defined labels to URLs.
LinkLike(value, t, refs, blc) ==
    LET n == Len(t)
        closed == n >= 3 /\ Word(t[2]) /\ t[3] = "]"
        text == <<Leaf("Text", <<t[2]>>)>>
        one(kid, used) ==
            [ kids |-> <<kid>>, used |-> used, calls |-> << >>, threw |-> FALSE ]
    IN  IF ~closed
        THEN one(Leaf("Text", <<"[">>), 1)
        ELSE IF /\ n >= 9 /\ t[4] = "(" /\ Word(t[5]) /\ t[6] = "\""
                /\ Word(t[7]) /\ t[8] = "\"" /\ t[9] = ")"
        THEN one(LinkNode(value, t[5], t[7], text), 9)
        ELSE IF n >= 6 /\ t[4] = "(" /\ Word(t[5]) /\ t[6] = ")"
        THEN one(LinkNode(value, t[5], "", text), 6)
        ELSE IF t[2] \in DOMAIN refs
        THEN one(LinkNode(value, refs[t[2]], "", text), 3)
        ELSE IF ~Callable(blc)
        THEN one(Leaf("Text", SubSeq(t, 1, 3)), 3)
        ELSE [ kids |->
                 IF Behaviour(blc) = "ok"
                 THEN <<LinkNode(value, ResolvedURL, ResolvedTitle, text)>>
                 ELSE <<Leaf("Text", SubSeq(t, 1, 3))>>,
               used |-> 3,
               calls |-> <<"brokenLinkCallback">>,
               threw |-> Behaviour(blc) = "throw" ]

\* The construct at the head of a non-empty token sequence.
InlineHead(t, refs, blc) ==
    LET n == Len(t)
        one(kid, used) ==
            [ kids |-> <<kid>>, used |-> used, calls |-> << >>, threw |-> FALSE ]
        image(l) ==
            [ l EXCEPT
                !.used = l.used + 1,
                !.kids = IF l.kids[1].d.value = "Text"
                         THEN <<Leaf("Text", <<"!">> \o l.kids[1].d.literal)>>
                         ELSE l.kids ]
    IN  CASE t[1] = "\\" /\ n >= 2 /\ t[2] \in Punct ->
                one(Leaf("Text", <<t[2]>>), 2)
          [] t[1] = "<" /\ n >= 3 /\ Word(t[2]) /\ t[3] = ">" ->
                one(Leaf("HtmlInline", SubSeq(t, 1, 3)), 3)
          [] t[1] = "!" /\ n >= 4 /\ t[2] = "[" /\ Word(t[3]) /\ t[4] = "]" ->
                image(LinkLike("Image", Tail(t), refs, blc))
          [] t[1] = "[" -> LinkLike("Link", t, refs, blc)
          [] t[1] = "_" /\ n >= 3 /\ Word(t[2]) /\ t[3] = t[1] ->
                one(Branch("Emph", <<Leaf("Text", <<t[2]>>)>>), 3)
          [] OTHER -> one(Leaf("Text", <<t[1]>>), 1)

\* A run of one to three `*` is one token.
StarRuns == {"*", "**", "***"}

RunLength(run) == CASE run = "*" -> 1 [] run = "**" -> 2 [] OTHER -> 3

Stars(n) == CASE n = 1 -> "*" [] n = 2 -> "**" [] OTHER -> "***"

\* The flanking rules for the run t[k]: it is left-flanking when no
\* whitespace follows it and, if punctuation follows it, whitespace or
\* punctuation precedes it; right-flanking is the mirror image.
LeftFlanking(t, k) ==
    /\ k < Len(t)
    /\ t[k + 1] \notin {" ", "\n"}
    /\ \/ t[k + 1] \notin Punct
       \/ k = 1
       \/ t[k - 1] \in {" ", "\n"} \cup Punct

RightFlanking(t, k) ==
    /\ k > 1
    /\ t[k - 1] \notin {" ", "\n"}
    /\ \/ t[k - 1] \notin Punct
       \/ k = Len(t)
       \/ t[k + 1] \in {" ", "\n"} \cup Punct

\* The entry of the delimiter stack for the run t[k]: `level` is the
\* number of stars left in it; a run of `*` can open emphasis when it is
\* left-flanking and close it when it is right-flanking.
DelimiterRun(t, k) ==
    [ d |-> [ NodeData("Delimiter") EXCEPT
                !.literal = <<t[k]>>,
                !.level = RunLength(t[k]),
                !.name = CASE LeftFlanking(t, k) /\ RightFlanking(t, k) -> "both"
                           [] LeftFlanking(t, k) -> "opener"
                           [] RightFlanking(t, k) -> "closer"
                           [] OTHER -> "neither" ],
      kids |-> << >> ]

IsDelimiter(kid) == kid.d.value = "Delimiter"

CanOpen(kid) == IsDelimiter(kid) /\ kid.d.name \in {"opener", "both"}

CanClose(kid) == IsDelimiter(kid) /\ kid.d.name \in {"closer", "both"}

\* Opener o matches closer c unless one of them can both open and close and
\* their lengths add up to a multiple of three without both being one.
Matches(o, c) ==
    /\ CanOpen(o)
    /\ ~ /\ "both" \in {o.d.name, c.d.name}
         /\ (o.d.level + c.d.level) % 3 = 0
         /\ ~(o.d.level % 3 = 0 /\ c.d.level % 3 = 0)

\* An opener search that takes the first matching opener of the stack.
FarthestOpener(kids, c) ==
    LET openers == { o \in 1..(c - 1) : Matches(kids[o], kids[c]) }
    IN  IF openers = {} THEN 0
        ELSE CHOOSE o \in openers : \A p \in openers : o <= p

\* The opener for the closer kids[c]: the nearest matching opener below it
\* on the stack, 0 when there is none.
Opener(kids, c) ==
    LET openers == { o \in 1..(c - 1) : Matches(kids[o], kids[c]) }
    IN  IF openers = {} THEN 0
        ELSE CHOOSE o \in openers : \A p \in openers : o >= p

\* What is left of a run after `use` of its stars were used.
Shortened(run, use) ==
    IF run.d.level = use THEN << >>
    ELSE << [ run EXCEPT !.d.level = @ - use,
                         !.d.literal = <<Stars(run.d.level - use)>> ] >>

\* Runs that matched nothing are text.
RECURSIVE AsText(_)
AsText(kids) ==
    IF kids = << >> THEN << >>
    ELSE <<IF IsDelimiter(kids[1]) THEN Leaf("Text", kids[1].d.literal)
           ELSE kids[1]>> \o AsText(Tail(kids))

\* The inline nodes of a leaf block's tokens: [kids, calls, threw].  The
\* scan stops at the first callback that throws.
RECURSIVE ScanInlinesFrom(_, _, _, _)
ScanInlinesFrom(t, at, refs, blc) ==
    IF at > Len(t)
    THEN [ kids |-> << >>, calls |-> << >>, threw |-> FALSE ]
    ELSE LET joined(h, r) ==
                 [ kids |-> h.kids \o r.kids,
                   calls |-> h.calls \o r.calls,
                   threw |-> r.threw ]
             from(h) ==
                 IF h.threw
                 THEN [ kids |-> << >>, calls |-> h.calls, threw |-> TRUE ]
                 ELSE joined(h, ScanInlinesFrom(t, at + h.used, refs, blc))
         IN  IF t[at] \in StarRuns
             THEN from([ kids |-> <<DelimiterRun(t, at)>>, used |-> 1,
                         calls |-> << >>, threw |-> FALSE ])
             ELSE from(InlineHead(SubSeq(t, at, Len(t)), refs, blc))

ScanInlines(t, refs, blc) == ScanInlinesFrom(t, 1, refs, blc)

\* The stars a closer and its opener use: two when both runs have two.
Use(opener, closer) ==
    IF opener.d.level >= 2 /\ closer.d.level >= 2 THEN 2 ELSE 1

\* The stack after kids[o] and kids[c] matched: what is left of the opener,
\* the new node over what lay between the two (runs between them are
\* text), what is left of the closer; `at` is the place after the node.
Spliced(kids, o, c, left, node, right) ==
    [ kids |-> SubSeq(kids, 1, o - 1) \o left \o <<node>> \o right
                   \o SubSeq(kids, c + 1, Len(kids)),
      at |-> o + Len(left) + 1 ]

Enclose(kids, o, c) ==
    Spliced(kids, o, c,
            Shortened(kids[o], Use(kids[o], kids[c])),
            Branch(IF Use(kids[o], kids[c]) = 2 THEN "Strong" ELSE "Emph",
                   MergeText(AsText(SubSeq(kids, o + 1, c - 1)))),
            Shortened(kids[c], Use(kids[o], kids[c])))

\* Process emphasis: from the closer at c upwards, each closer takes its
\* opener; two stars of each make a Strong node, one star of each an Emph
\* node, and what is left of the closer is tried again.
RECURSIVE ProcessEmphasis(_, _)
ProcessEmphasis(kids, c) ==
    LET again(e) == ProcessEmphasis(e.kids, e.at)
        closed(o) == IF o = 0 THEN ProcessEmphasis(kids, c + 1)
                     ELSE again(Enclose(kids, o, c))
    IN  IF c > Len(kids) THEN kids
        ELSE IF ~CanClose(kids[c]) THEN ProcessEmphasis(kids, c + 1)
        ELSE closed(Opener(kids, c))

ParseInlines(t, refs, blc) ==
    LET merged(r) ==
            [ r EXCEPT
                !.kids = IF \E k \in DOMAIN r.kids : IsDelimiter(r.kids[k])
                         THEN MergeText(AsText(ProcessEmphasis(r.kids, 1)))
                         ELSE MergeText(r.kids) ]
    IN  merged(ScanInlines(t, refs, blc))

(***************************************************************************)
(* The engine: block parser, parse_document                                *)
(***************************************************************************)
\* The engine's reading of a configuration field: an absent field reads as
\* undefined.
Opt(opts, g, k) ==
    IF g \in DOMAIN opts /\ k \in DOMAIN opts[g] THEN opts[g][k] ELSE "undefined"

Flag(opts, g, k) == Opt(opts, g, k) = "true"

\* An optional string field (frontMatterDelimiter, headerIDs) is set.
IsSet(opts, g, k) == Opt(opts, g, k) \notin {"null", "undefined"}

\* A link reference definition, `[label]: url`.
IsDefinition(b) ==
    /\ Len(b) = 5
    /\ b[1] = "[" /\ Word(b[2]) /\ b[3] = "]" /\ b[4] = ":" /\ Word(b[5])

\* The reference map of a text: the first definition of a label wins.
RefsOf(text) ==
    LET defs == { i \in DOMAIN text : IsDefinition(text[i]) }
        first(l) == CHOOSE i \in defs :
                        /\ text[i][2] = l
                        /\ \A j \in defs : text[j][2] = l => i <= j
    IN  [ l \in { text[i][2] : i \in defs } |-> text[first(l)][5] ]

\* Front matter: the delimiter on its own line, content, the delimiter.
IsFrontMatter(b, delim) ==
    Len(b) >= 2 /\ b[1] = delim /\ b[Len(b)] = delim

\* The opening fences: a bare one, one with the info string `rs`, and one
\* with the info string `a"b m` (a language tag and further words).
Fences == {"~~~", "~~~rs", "~~~a\"b m"}

\* The info string of an opening fence.
InfoOf(fence) ==
    CASE fence = "~~~rs" -> <<"rs">>
      [] fence = "~~~a\"b m" -> <<"a", "\"", "b", " ", "m">>
      [] OTHER -> << >>

\* The opening fence that carries an info string.
FenceOf(info) ==
    CASE info = <<"rs">> -> "~~~rs"
      [] info = <<"a", "\"", "b", " ", "m">> -> "~~~a\"b m"
      [] OTHER -> "~~~"

\* The index of the fence closing a code block opened at b[1], or 0.
ClosingFence(b) ==
    LET closers == { j \in 2..Len(b) : b[j] = "~~~" }
    IN  IF closers = {} THEN 0
        ELSE CHOOSE j \in closers : \A k \in closers : j <= k

\* Inside a list the token "\n" ends a line, and a line without a token is
\* a blank line.  The lines of the tokens s, `line` being the line so far.
RECURSIVE SplitLines(_, _)
SplitLines(s, line) ==
    IF s = << >> THEN <<line>>
    ELSE IF s[1] = "\n" THEN <<line>> \o SplitLines(Tail(s), << >>)
    ELSE SplitLines(Tail(s), Append(line, s[1]))

RECURSIVE JoinLines(_)
JoinLines(lines) ==
    IF lines = << >> THEN << >>
    ELSE IF Len(lines) = 1 THEN lines[1]
    ELSE lines[1] \o <<"\n">> \o JoinLines(Tail(lines))

\* The items of the list that opens at the first line: [items, rest].  An
\* item is [content, last_line_blank]; a line with the marker `-` opens an
\* item, a blank line sets last_line_blank on the open item, a line without
\* marker continues the paragraph of the open item, and after a blank line
\* it ends the list.
RECURSIVE ScanItems(_, _)
ScanItems(lines, items) ==
    LET n == Len(items)
    IN  IF lines = << >> THEN [ items |-> items, rest |-> << >> ]
        ELSE IF lines[1] = << >>
        THEN ScanItems(Tail(lines),
                       [ items EXCEPT ![n].last_line_blank = TRUE ])
        ELSE IF lines[1][1] = "-"
        THEN ScanItems(Tail(lines),
                       Append(items, [ content |-> Tail(lines[1]),
                                       last_line_blank |-> FALSE ]))
        ELSE IF items[n].last_line_blank
        THEN [ items |-> items, rest |-> lines ]
        ELSE ScanItems(Tail(lines),
                       [ items EXCEPT ![n].content = @ \o <<"\n">> \o lines[1] ])

\* A list that is loose when a blank line follows any of its items, the
\* last one included.
CountingTrailingBlank(items) ==
    \A k \in 1..Len(items) : ~items[k].last_line_blank

\* The list closes: it is tight unless a blank line lies between the
\* content of two of its items; blank lines after the last item are not
\* between two items.
Tight(items) ==
    \A k \in 1..(Len(items) - 1) : ~items[k].last_line_blank

\* The task markers: `[ ]`, `[x]`, `[X]` and `[-]`, a marker with another
\* symbol; each is one token.
TaskMarkers == {"[ ]", "[x]", "[X]", "[-]"}

\* The symbol between the brackets of a task marker.
SymbolOf(marker) ==
    CASE marker = "[x]" -> "x"
      [] marker = "[X]" -> "X"
      [] marker = "[-]" -> "-"
      [] OTHER -> " "

\* The task marker at the head of an item's content that makes the item a
\* task item, "" when there is none: the tasklist extension must be on,
\* and a symbol other than x and X counts under relaxedTasklistMatching
\* only.
TaskMarker(content, opts) ==
    IF /\ Flag(opts, "extension", "tasklist")
       /\ content # << >>
       /\ content[1] \in TaskMarkers
       /\ \/ content[1] \in {"[ ]", "[x]", "[X]"}
          \/ Flag(opts, "parse", "relaxedTasklistMatching")
    THEN content[1] ELSE ""

\* The node of an item with the inline nodes of its paragraph; the value
\* of a TaskItem is its symbol, null when the box is empty.
ItemNode(marker, inlines) ==
    [ d |-> IF marker = "" THEN NodeData("Item")
            ELSE [ NodeData("TaskItem") EXCEPT
                     !.symbol = IF marker = "[ ]" THEN "null"
                                ELSE SymbolOf(marker) ],
      kids |-> IF inlines = << >> THEN << >>
               ELSE <<Branch("Paragraph", inlines)>> ]

\* The item nodes of the items: [kids, calls, threw].
RECURSIVE ParseItems(_, _, _, _)
ParseItems(items, opts, refs, blc) ==
    IF items = << >>
    THEN [ kids |-> << >>, calls |-> << >>, threw |-> FALSE ]
    ELSE LET marker == TaskMarker(items[1].content, opts)
             body == IF marker = "" THEN items[1].content
                     ELSE Tail(items[1].content)
             joined(h, r) ==
                 [ kids |-> <<ItemNode(marker, h.kids)>> \o r.kids,
                   calls |-> h.calls \o r.calls,
                   threw |-> r.threw ]
             from(h) ==
                 IF h.threw
                 THEN [ kids |-> << >>, calls |-> h.calls, threw |-> TRUE ]
                 ELSE joined(h, ParseItems(Tail(items), opts, refs, blc))
         IN  from(ParseInlines(body, refs, blc))

\* The List node over the item nodes.
ListNode(items, kids) ==
    [ d |-> [ NodeData("List") EXCEPT
                !.tight = Tight(items),
                !.is_task_list =
                    \E k \in DOMAIN kids : kids[k].d.value = "TaskItem" ],
      kids |-> kids ]

\* The block nodes of one block of source text: [kids, calls, threw].
RECURSIVE ParseBlock(_, _, _, _, _)
ParseBlock(b, first, opts, refs, blc) ==
    LET n == Len(b)
        leaf(k) == [ kids |-> <<k>>, calls |-> << >>, threw |-> FALSE ]
        before(k, r) == [ r EXCEPT !.kids = <<k>> \o r.kids ]
        after(k, rest) ==
            IF rest = << >> THEN leaf(k)
            ELSE before(k, ParseBlock(rest, FALSE, opts, refs, blc))
        under(level, r) == [ r EXCEPT !.kids = <<HeadingNode(level, r.kids)>> ]
        heading(level, toks) == under(level, ParseInlines(toks, refs, blc))
        paragraph(r) == [ r EXCEPT !.kids = <<Branch("Paragraph", r.kids)>> ]
        list(scan) ==
            LET listed(r) ==
                    IF r.threw THEN r
                    ELSE IF scan.rest = << >>
                    THEN [ r EXCEPT !.kids = <<ListNode(scan.items, r.kids)>> ]
                    ELSE [ before(ListNode(scan.items, r.kids),
                                  ParseBlock(JoinLines(scan.rest), FALSE, opts,
                                             refs, blc))
                             EXCEPT !.calls = r.calls \o @ ]
            IN  listed(ParseItems(scan.items, opts, refs, blc))
    IN  CASE /\ first
             /\ IsSet(opts, "extension", "frontMatterDelimiter")
             /\ IsFrontMatter(b, Opt(opts, "extension", "frontMatterDelimiter")) ->
                leaf(Leaf("FrontMatter", b))
          [] IsDefinition(b) ->
                [ kids |-> << >>, calls |-> << >>, threw |-> FALSE ]
          [] b[1] \in {"---", "-----"} ->
                after(Leaf("ThematicBreak", << >>), Tail(b))
          [] b[1] = "#" -> heading(1, Tail(b))
          [] b[1] = "##" -> heading(2, Tail(b))
          [] b[1] \in Fences ->
                LET j == ClosingFence(b)
                IN  IF j = 0
                    THEN leaf(CodeNode(InfoOf(b[1]), Tail(b)))
                    ELSE after(CodeNode(InfoOf(b[1]), SubSeq(b, 2, j - 1)),
                               SubSeq(b, j + 1, n))
          [] n = 3 /\ b[1] = "<" /\ Word(b[2]) /\ b[3] = ">" ->
                leaf(Leaf("HtmlBlock", b))
          [] b[1] = "-" -> list(ScanItems(SplitLines(b, << >>), << >>))
          [] n >= 2 /\ b[n] = "---" /\ b[n - 1] # "\\" ->
                heading(2, SubSeq(b, 1, n - 1))
          [] OTHER -> paragraph(ParseInlines(b, refs, blc))

(***************************************************************************)
(* The engine: footnotes                                                   *)
(***************************************************************************)
\* The footnote labels of the texts: `[^x]` is a reference and `[^x]:`
\* opens the definition; `^[n]` is an inline footnote with the content n.
\* Each is one token.
FootnoteLabels == {"x", "y"}

ReferenceToken(label) == "[^" \o label \o "]"

DefinitionToken(label) == "[^" \o label \o "]:"

InlineNotes == {"^[n]", "^[m]"}

InlineContent(t) == IF t = "^[n]" THEN <<"n">> ELSE <<"m">>

\* The label a token refers to or defines; "" for any other token.
Referred(t) ==
    IF \E l \in FootnoteLabels : t = ReferenceToken(l)
    THEN CHOOSE l \in FootnoteLabels : t = ReferenceToken(l) ELSE ""

Defined(t) ==
    IF \E l \in FootnoteLabels : t = DefinitionToken(l)
    THEN CHOOSE l \in FootnoteLabels : t = DefinitionToken(l) ELSE ""

\* The label a block defines, "" when the block is no footnote definition:
\* a paragraph whose text begins with `[^label]:`.
DefinedBy(t) ==
    IF /\ t.d.value = "Paragraph" /\ t.kids # << >>
       /\ t.kids[1].d.value = "Text" /\ t.kids[1].d.literal # << >>
    THEN Defined(t.kids[1].d.literal[1]) ELSE ""

\* The tokens of the Text nodes of the trees, in document order.
RECURSIVE TextTokens(_)
TextTokens(ts) ==
    IF ts = << >> THEN << >>
    ELSE (IF ts[1].d.value = "Text" THEN ts[1].d.literal
          ELSE TextTokens(ts[1].kids)) \o TextTokens(Tail(ts))

\* The name of the footnote each footnote token of `tokens` refers to, in
\* order: the label of a reference whose label is in `labels`, and
\* `__inline_k` for the k-th inline footnote when `inline` holds.
RECURSIVE NoteNames(_, _, _, _)
NoteNames(tokens, labels, inline, k) ==
    IF tokens = << >> THEN << >>
    ELSE IF Referred(tokens[1]) \in labels
    THEN <<Referred(tokens[1])>> \o NoteNames(Tail(tokens), labels, inline, k)
    ELSE IF inline /\ tokens[1] \in InlineNotes
    THEN <<"__inline_" \o ToString(k + 1)>>
             \o NoteNames(Tail(tokens), labels, inline, k + 1)
    ELSE NoteNames(Tail(tokens), labels, inline, k)

\* The names in the order of their first occurrence.
RECURSIVE FirstReferences(_, _)
FirstReferences(names, seen) ==
    IF names = << >> THEN << >>
    ELSE IF names[1] \in seen THEN FirstReferences(Tail(names), seen)
    ELSE <<names[1]>> \o FirstReferences(Tail(names), seen \cup {names[1]})

\* A numbering that counts the named and the inline footnotes apart.
OrdinalPerKind(name, order) ==
    IF \E n \in DOMAIN order : order[n] = name
    THEN Cardinality({ m \in DOMAIN order :
                         /\ m <= (CHOOSE n \in DOMAIN order : order[n] = name)
                         /\ (order[m] \in FootnoteLabels)
                                = (name \in FootnoteLabels) })
    ELSE 0

\* The position of name in the sequence of names; 0 when it is not there.
Ordinal(name, order) ==
    IF \E n \in DOMAIN order : order[n] = name
    THEN CHOOSE n \in DOMAIN order : order[n] = name ELSE 0

ReferenceLeaf(name, ix) ==
    [ d |-> [NodeData("FootnoteReference") EXCEPT !.name = name, !.ix = ix],
      kids |-> << >> ]

DefinitionBranch(name, ix, kids) ==
    [ d |-> [NodeData("FootnoteDefinition") EXCEPT !.name = name, !.ix = ix],
      kids |-> <<Branch("Paragraph", kids)>> ]

TextIf(run) == IF run = << >> THEN << >> ELSE <<Leaf("Text", run)>>

\* The Text with the tokens `literal` after the run `run`, its footnote
\* tokens made FootnoteReference nodes: [kids, k], k counting the inline
\* footnotes met so far.
RECURSIVE SplitText(_, _, _, _, _, _)
SplitText(literal, run, labels, inline, order, k) ==
    IF literal = << >> THEN [ kids |-> TextIf(run), k |-> k ]
    ELSE LET t == literal[1]
             Before(ref, r) == [ kids |-> TextIf(run) \o <<ref>> \o r.kids, k |-> r.k ]
         IN  IF Referred(t) \in labels
             THEN Before(ReferenceLeaf(Referred(t), Ordinal(Referred(t), order)),
                         SplitText(Tail(literal), << >>, labels, inline, order, k))
             ELSE IF inline /\ t \in InlineNotes
             THEN Before(ReferenceLeaf("__inline_" \o ToString(k + 1),
                                       Ordinal("__inline_" \o ToString(k + 1), order)),
                         SplitText(Tail(literal), << >>, labels, inline, order, k + 1))
             ELSE SplitText(Tail(literal), Append(run, t), labels, inline, order, k)

\* The trees with every footnote token made a FootnoteReference: [kids, k].
RECURSIVE Referenced(_, _, _, _, _)
Referenced(ts, labels, inline, order, k) ==
    IF ts = << >> THEN [ kids |-> << >>, k |-> k ]
    ELSE LET Then(h, r) == [ kids |-> h.kids \o r.kids, k |-> r.k ]
             Rest(h) == Then(h, Referenced(Tail(ts), labels, inline, order, h.k))
             Under(r) == [ kids |-> <<[ ts[1] EXCEPT !.kids = r.kids ]>>, k |-> r.k ]
         IN  IF ts[1].d.value = "Text"
             THEN Rest(SplitText(ts[1].d.literal, << >>, labels, inline, order, k))
             ELSE Rest(Under(Referenced(ts[1].kids, labels, inline, order, k)))

\* The definition of the footnote `name`, numbered ix: the block that
\* defines the label without its opening token, or the content of the
\* inline footnote.
DefinitionOf(name, ix, blocks, inlines) ==
    IF name \in FootnoteLabels
    THEN LET b == blocks[CHOOSE n \in DOMAIN blocks :
                           /\ DefinedBy(blocks[n]) = name
                           /\ \A m \in 1..(n - 1) : DefinedBy(blocks[m]) # name]
         IN  DefinitionBranch(name, ix,
                              TextIf(Tail(b.kids[1].d.literal)) \o Tail(b.kids))
    ELSE DefinitionBranch(name, ix,
             <<Leaf("Text", InlineContent(
                   inlines[CHOOSE n \in DOMAIN inlines :
                             name = "__inline_" \o ToString(n)]))>>)

\* The footnote pass over the blocks of the document: references are
\* numbered in the order of their first occurrence, the definitions of the
\* referenced footnotes follow the other blocks in that order, and a
\* definition nothing refers to is dropped.
process_footnotes(blocks, opts) ==
    IF ~Flag(opts, "extension", "footnotes") THEN blocks
    ELSE LET Numbered(body, labels, inline, tokens) ==
                 LET Placed(order, inlines) ==
                         Referenced(body, labels, inline, order, 0).kids
                             \o [ n \in DOMAIN order |->
                                    DefinitionOf(order[n], n, blocks, inlines) ]
                 IN  Placed(FirstReferences(NoteNames(tokens, labels, inline, 0), {}),
                            SelectSeq(tokens, LAMBDA t : t \in InlineNotes))
             Pass(body) ==
                 Numbered(body,
                          { DefinedBy(blocks[n]) : n \in DOMAIN blocks } \ {""},
                          Flag(opts, "extension", "inlineFootnotes"),
                          TextTokens(body))
         IN  Pass(SelectSeq(blocks, LAMBDA b : DefinedBy(b) = ""))

\* parse_document: [st, nodes, calls].  The empty text has an empty node
\* store; any other text has the Document root first.  The URL rewriters are
\* received and not called by the parser.
parse_document(text, opts, blc, img, lnk) ==
    LET refs == RefsOf(text)
        joined(h, r) ==
            [ kids |-> h.kids \o r.kids,
              calls |-> h.calls \o r.calls,
              threw |-> r.threw ]
        RECURSIVE Walk(_)
        Walk(i) ==
            IF i > Len(text)
            THEN [ kids |-> << >>, calls |-> << >>, threw |-> FALSE ]
            ELSE LET from(h) ==
                         IF h.threw
                         THEN [ kids |-> << >>, calls |-> h.calls, threw |-> TRUE ]
                         ELSE joined(h, Walk(i + 1))
                 IN  from(ParseBlock(text[i], i = 1, opts, refs, blc))
        document(doc) ==
            IF doc.threw
            THEN [ st |-> "throw", nodes |-> << >>, calls |-> doc.calls ]
            ELSE [ st |-> "ok",
                   nodes |-> IF text = << >> THEN << >>
                             ELSE Flatten(Branch("Document",
                                                 process_footnotes(doc.kids, opts)),
                                          1, 0, 0, 0),
                   calls |-> doc.calls ]
    IN  document(Walk(1))

(***************************************************************************)
(* The engine: what the renderers share                                    *)
(***************************************************************************)
\* The plugin values a render call received.
RenderContext(opts, sa, ha, blc, img, lnk) ==
    [ opts |-> opts, sa |-> sa, ha |-> ha, blc |-> blc, img |-> img, lnk |-> lnk ]

\* The return of an engine function together with the syntax highlighter
\* and the heading adapter it was called with.
Received(r, sa, ha) ==
    [ st |-> r.st, out |-> r.out, calls |-> r.calls, sa |-> sa, ha |-> ha ]

\* Whether the named callback invocation throws.
Throws(call, c) ==
    CASE call = "brokenLinkCallback" -> Behaviour(c.blc) = "throw"
      [] call = "headingAdapter.enter" -> Behaviour(c.ha) = "throw"
      [] call = "highlighter.highlight" -> Behaviour(c.sa) = "throw"
      [] call = "linkURLRewriter" -> Behaviour(c.lnk) = "throw"
      [] call = "imageURLRewriter" -> Behaviour(c.img) = "throw"
      [] OTHER -> FALSE

\* The calls of a walk when the result of a callback is kept and used again:
\* only the first invocation of each callback is made.
RECURSIVE WithoutRepeats(_, _)
WithoutRepeats(s, seen) ==
    IF s = << >> THEN << >>
    ELSE IF s[1] \in seen THEN WithoutRepeats(Tail(s), seen)
    ELSE <<s[1]>> \o WithoutRepeats(Tail(s), seen \cup {s[1]})

\* The outcome of a walk by an engine that memoizes its callbacks.
OutcomeMemoizing(r, c) ==
    LET calls == WithoutRepeats(r.calls, {})
        bad == { k \in DOMAIN calls : Throws(calls[k], c) }
        first == CHOOSE k \in bad : \A j \in bad : k <= j
    IN  IF bad = {}
        THEN [ st |-> "ok", out |-> r.out, calls |-> calls ]
        ELSE [ st |-> "throw", out |-> << >>, calls |-> SubSeq(calls, 1, first) ]

\* A walk [out, calls] as the outcome of the call: the first callback that
\* throws ends the call, which then returns no output.
Outcome(r, c) ==
    LET bad == { k \in DOMAIN r.calls : Throws(r.calls[k], c) }
        first == CHOOSE k \in bad : \A j \in bad : k <= j
    IN  IF bad = {}
        THEN [ st |-> "ok", out |-> r.out, calls |-> r.calls ]
        ELSE [ st |-> "throw", out |-> << >>, calls |-> SubSeq(r.calls, 1, first) ]

\* The text content of node i: the literals of its Text descendants.
RECURSIVE TextOf(_, _)
TextOf(nodes, i) ==
    LET kids == Children(nodes, i)
        RECURSIVE Each(_)
        Each(k) == IF k > Len(kids) THEN << >>
                   ELSE TextOf(nodes, kids[k]) \o Each(k + 1)
    IN  IF nodes[i].value = "Text" THEN nodes[i].literal ELSE Each(1)

\* The HTML entity escapes of the fixed minimal set & < > ".
EscapeToken(t) ==
    CASE t = "<" -> "&lt;"
      [] t = ">" -> "&gt;"
      [] t = "&" -> "&amp;"
      [] t = "\"" -> "&quot;"
      [] OTHER -> t

Escape(s) == [ i \in 1..Len(s) |-> EscapeToken(s[i]) ]

\* The tag names the tagfilter extension disallows.
Denylist == {"title", "textarea", "style", "xmp", "iframe", "noembed",
             "noframes", "script", "plaintext"}

\* tagfilter: the `<` that opens a disallowed tag is escaped.
TagFilter(s) ==
    [ i \in 1..Len(s) |->
        IF s[i] = "<" /\ i < Len(s) /\ s[i + 1] \in Denylist
        THEN "&lt;" ELSE s[i] ]

Placeholder == <<"<!-- raw HTML omitted -->">>

\* A raw HTML run in HTML output.
RawHTML(s, opts) ==
    IF Flag(opts, "render", "escape") THEN Escape(s)
    ELSE IF ~Flag(opts, "render", "unsafe") THEN Placeholder
    ELSE IF Flag(opts, "extension", "tagfilter") THEN TagFilter(s)
    ELSE s

\* The slug of a heading's text: lowercased, words joined by hyphens.
Lower(t) ==
    CASE t = "T" -> "t"
      [] t = "K" -> "k"
      [] OTHER -> t

RECURSIVE JoinSlug(_)
JoinSlug(w) ==
    IF w = << >> THEN ""
    ELSE IF Len(w) = 1 THEN Lower(w[1])
    ELSE Lower(w[1]) \o "-" \o JoinSlug(Tail(w))

Slug(s) == JoinSlug(SelectSeq(s, Word))

\* The built-in heading anchor.
Anchor(prefix, slug) ==
    "<a href=\"#" \o slug \o "\" aria-hidden=\"true\" class=\"anchor\" id=\""
        \o prefix \o slug \o "\"></a>"

\* What a URL rewriter returns.
Rewritten(url) == "rw(" \o url \o ")"

(***************************************************************************)
(* The engine: HTML renderer                                               *)
(***************************************************************************)
\* The language tag of an info string (its first word) and the rest of it.
RECURSIVE Lang(_)
Lang(info) ==
    IF info = << >> \/ info[1] = " " THEN << >>
    ELSE <<info[1]>> \o Lang(Tail(info))

Meta(info) == SubSeq(info, Len(Lang(info)) + 2, Len(info))

\* The attributes of the `pre` and of the `code` tag of a code block:
\* `lang` on pre under githubPreLang and `class="language-..."` on code
\* without it, and under fullInfoString `data-meta` next to it.
PreAttrs(nd, opts) ==
    IF Flag(opts, "render", "githubPreLang") /\ Lang(nd.info) # << >>
    THEN << <<"lang", Lang(nd.info)>> >>
             \o (IF Flag(opts, "render", "fullInfoString") /\ Meta(nd.info) # << >>
                 THEN << <<"data-meta", Meta(nd.info)>> >> ELSE << >>)
    ELSE << >>

CodeAttrs(nd, opts) ==
    (IF ~Flag(opts, "render", "githubPreLang") /\ Lang(nd.info) # << >>
     THEN << <<"class", <<"language-">> \o Lang(nd.info)>> >> ELSE << >>)
    \o (IF ~Flag(opts, "render", "githubPreLang")
           /\ Flag(opts, "render", "fullInfoString") /\ Meta(nd.info) # << >>
        THEN << <<"data-meta", Meta(nd.info)>> >> ELSE << >>)

\* The attributes as the built-in renderer writes them.
RECURSIVE HTMLAttrs(_)
HTMLAttrs(attrs) ==
    IF attrs = << >> THEN << >>
    ELSE <<" ", attrs[1][1], "=\"">> \o Escape(attrs[1][2]) \o <<"\"">>
             \o HTMLAttrs(Tail(attrs))

\* The opening tags of a code block without a highlighter.
CodeBlockOpen(nd, opts) ==
    IF PreAttrs(nd, opts) = << >> /\ CodeAttrs(nd, opts) = << >>
    THEN <<"<pre><code>">>
    ELSE <<"<pre">> \o HTMLAttrs(PreAttrs(nd, opts)) \o <<">", "<code">>
             \o HTMLAttrs(CodeAttrs(nd, opts)) \o <<">">>

\* The checkbox that opens the content of a task item, nothing for any
\* other item.
Checkbox(item) ==
    IF item.value # "TaskItem" THEN << >>
    ELSE IF item.symbol = "null"
    THEN <<"<input type=\"checkbox\" disabled=\"\" />", " ">>
    ELSE <<"<input type=\"checkbox\" checked=\"\" disabled=\"\" />", " ">>

RECURSIVE HTMLNode(_, _, _)
HTMLNode(nodes, i, c) ==
    LET nd == nodes[i]
        kids == Children(nodes, i)
        RECURSIVE Each(_)
        Each(k) ==
            IF k > Len(kids) THEN [ out |-> << >>, calls |-> << >> ]
            ELSE LET a == HTMLNode(nodes, kids[k], c)
                     b == Each(k + 1)
                 IN  [ out |-> a.out \o b.out, calls |-> a.calls \o b.calls ]
        inner == Each(1)
        wrap(pre, post) ==
            [ out |-> pre \o inner.out \o post, calls |-> inner.calls ]
        only(o) == [ out |-> o, calls |-> << >> ]
        h == "h" \o ToString(nd.level)
        titleAttr == IF nd.title = "" THEN << >>
                     ELSE <<" title=\"", nd.title, "\"">>
    IN  CASE nd.value = "Document" ->
                wrap(<< >>,
                     IF \E k \in DOMAIN kids :
                            nodes[kids[k]].value = "FootnoteDefinition"
                     THEN <<"</ol>", "\n", "</section>", "\n">> ELSE << >>)
          [] nd.value = "FootnoteDefinition" ->
                wrap((IF nd.ix = 1
                      THEN <<"<section class=\"footnotes\" data-footnotes>", "\n",
                             "<ol>", "\n">>
                      ELSE << >>)
                         \o <<"<li id=\"fn-" \o nd.name \o "\">", "\n">>,
                     <<"</li>", "\n">>)
          [] nd.value = "FootnoteReference" ->
                only(<<"<sup class=\"footnote-ref\"><a href=\"#fn-" \o nd.name
                           \o "\" data-footnote-ref>",
                       ToString(nd.ix), "</a></sup>">>)
          [] nd.value = "Paragraph" ->
                IF nodes[nd.parent].value \notin {"Item", "TaskItem"}
                THEN wrap(<<"<p>">>, <<"</p>", "\n">>)
                ELSE IF nodes[nodes[nd.parent].parent].tight
                THEN wrap(Checkbox(nodes[nd.parent]), << >>)
                ELSE wrap(<<"<p>">> \o Checkbox(nodes[nd.parent]),
                          <<"</p>", "\n">>)
          [] nd.value = "List" -> wrap(<<"<ul>", "\n">>, <<"</ul>", "\n">>)
          [] nd.value \in {"Item", "TaskItem"} ->
                IF nodes[nd.parent].tight
                THEN wrap(<<"<li>">>, <<"</li>", "\n">>)
                ELSE wrap(<<"<li>", "\n">>, <<"</li>", "\n">>)
          [] nd.value = "Heading" ->
                IF c.ha \notin {"null", "undefined"}
                THEN [ out |-> <<"enter(" \o h \o ")">> \o inner.out
                                   \o <<"exit(" \o h \o ")">>,
                       calls |-> <<"headingAdapter.enter">> \o inner.calls
                                   \o <<"headingAdapter.exit">> ]
                ELSE wrap(<<"<" \o h \o ">">>
                              \o (IF IsSet(c.opts, "extension", "headerIDs")
                                  THEN <<Anchor(Opt(c.opts, "extension", "headerIDs"),
                                                Slug(TextOf(nodes, i)))>>
                                  ELSE << >>),
                          <<"</" \o h \o ">", "\n">>)
          [] nd.value = "ThematicBreak" -> only(<<"<hr />", "\n">>)
          [] nd.value = "FrontMatter" -> only(<< >>)
          [] nd.value = "HtmlBlock" -> only(RawHTML(nd.literal, c.opts) \o <<"\n">>)
          [] nd.value = "HtmlInline" -> only(RawHTML(nd.literal, c.opts))
          [] nd.value = "CodeBlock" ->
                IF c.sa \notin {"null", "undefined"}
                THEN [ out |-> AdapterTag(c.sa, "pre", PreAttrs(nd, c.opts))
                                   \o AdapterTag(c.sa, "code", CodeAttrs(nd, c.opts))
                                   \o <<"highlight(">> \o nd.literal
                                   \o <<")", "</code></pre>", "\n">>,
                       calls |-> <<"highlighter.pre", "highlighter.code",
                                   "highlighter.highlight">> ]
                ELSE only(CodeBlockOpen(nd, c.opts) \o Escape(nd.literal)
                              \o <<"</code></pre>", "\n">>)
          [] nd.value = "Text" -> only(Escape(nd.literal))
          [] nd.value = "Emph" -> wrap(<<"<em>">>, <<"</em>">>)
          [] nd.value = "Strong" -> wrap(<<"<strong>">>, <<"</strong>">>)
          [] nd.value = "Link" ->
                [ out |-> <<"<a href=\"",
                            IF Callable(c.lnk) THEN Rewritten(nd.url) ELSE nd.url,
                            "\"">> \o titleAttr \o <<">">> \o inner.out \o <<"</a>">>,
                  calls |-> (IF Callable(c.lnk) THEN <<"linkURLRewriter">> ELSE << >>)
                                \o inner.calls ]
          [] nd.value = "Image" ->
                [ out |-> <<"<img src=\"",
                            IF Callable(c.img) THEN Rewritten(nd.url) ELSE nd.url,
                            "\" alt=\"">> \o Escape(TextOf(nodes, i)) \o <<"\"">>
                              \o titleAttr \o <<" />">>,
                  calls |-> IF Callable(c.img) THEN <<"imageURLRewriter">> ELSE << >> ]

\* format_html
format_html(nodes, opts, sa, ha, blc, img, lnk) ==
    LET c == RenderContext(opts, sa, ha, blc, img, lnk)
    IN  Received(Outcome(IF nodes = << >> THEN [ out |-> << >>, calls |-> << >> ]
                         ELSE HTMLNode(nodes, 1, c),
                         c),
                 sa, ha)

(***************************************************************************)
(* The engine: XML renderer                                                *)
(***************************************************************************)
\* The fixed preamble of every XML document.
XMLPreamble ==
    << "<?xml version=\"1.0\" encoding=\"UTF-8\"?>", "\n",
       "<!DOCTYPE document SYSTEM \"CommonMark.dtd\">", "\n" >>

\* Two spaces per nesting depth.
RECURSIVE Indent(_)
Indent(depth) == IF depth = 0 THEN << >> ELSE <<"  ">> \o Indent(depth - 1)

\* The element name and attributes of a node.
XMLTag(nd) ==
    CASE nd.value = "Document" ->
            "document xmlns=\"http://commonmark.org/xml/1.0\""
      [] nd.value = "Paragraph" -> "paragraph"
      [] nd.value = "Heading" -> "heading level=\"" \o ToString(nd.level) \o "\""
      [] nd.value = "ThematicBreak" -> "thematic_break"
      [] nd.value = "HtmlBlock" -> "html_block xml:space=\"preserve\""
      [] nd.value = "HtmlInline" -> "html_inline xml:space=\"preserve\""
      [] nd.value = "CodeBlock" -> "code_block xml:space=\"preserve\""
      [] nd.value = "Text" -> "text xml:space=\"preserve\""
      [] nd.value = "Emph" -> "emph"
      [] nd.value = "Strong" -> "strong"
      [] nd.value = "Link" ->
            "link destination=\"" \o nd.url \o "\" title=\"" \o nd.title \o "\""
      [] nd.value = "Image" ->
            "image destination=\"" \o nd.url \o "\" title=\"" \o nd.title \o "\""
      [] nd.value = "List" ->
            "list type=\"bullet\""
                \o (IF nd.is_task_list THEN " tasklist=\"true\"" ELSE "")
                \o " tight=\"" \o (IF nd.tight THEN "true" ELSE "false") \o "\""
      [] nd.value = "Item" -> "item"
      [] nd.value = "TaskItem" ->
            IF nd.symbol = "null" THEN "taskitem"
            ELSE "taskitem completed=\"true\""
      [] OTHER -> "custom"

XMLName(nd) ==
    CASE nd.value = "Document" -> "document"
      [] nd.value = "Paragraph" -> "paragraph"
      [] nd.value = "Heading" -> "heading"
      [] nd.value = "HtmlBlock" -> "html_block"
      [] nd.value = "HtmlInline" -> "html_inline"
      [] nd.value = "CodeBlock" -> "code_block"
      [] nd.value = "Text" -> "text"
      [] nd.value = "Emph" -> "emph"
      [] nd.value = "Strong" -> "strong"
      [] nd.value = "FootnoteReference" -> "footnote_reference"
      [] nd.value = "FootnoteDefinition" -> "footnote_definition"
      [] nd.value = "Link" -> "link"
      [] nd.value = "Image" -> "image"
      [] nd.value = "List" -> "list"
      [] nd.value = "Item" -> "item"
      [] nd.value = "TaskItem" -> "taskitem"
      [] OTHER -> "custom"

RECURSIVE XMLNode(_, _, _, _)
XMLNode(nodes, i, depth, opts) ==
    LET nd == nodes[i]
        kids == Children(nodes, i)
        RECURSIVE Each(_)
        Each(k) == IF k > Len(kids) THEN << >>
                   ELSE XMLNode(nodes, kids[k], depth + 1, opts) \o Each(k + 1)
        literal == Indent(depth) \o <<"<" \o XMLTag(nd) \o ">">> \o Escape(nd.literal)
                       \o <<"</" \o XMLName(nd) \o ">", "\n">>
    IN  CASE nd.value = "FrontMatter" -> << >>
          [] nd.value \in {"HtmlBlock", "HtmlInline"} ->
                IF Flag(opts, "render", "unsafe") THEN literal ELSE << >>
          [] nd.value \in {"Text", "CodeBlock"} -> literal
          [] kids = << >> -> Indent(depth) \o <<"<" \o XMLTag(nd) \o " />", "\n">>
          [] OTHER ->
                Indent(depth) \o <<"<" \o XMLTag(nd) \o ">", "\n">> \o Each(1)
                    \o Indent(depth) \o <<"</" \o XMLName(nd) \o ">", "\n">>

\* format_xml
format_xml(nodes, opts, sa, ha, blc, img, lnk) ==
    [ st |-> "ok",
      out |-> XMLPreamble
                \o (IF nodes = << >> THEN << >> ELSE XMLNode(nodes, 1, 0, opts)),
      calls |-> << >>, sa |-> sa, ha |-> ha ]

(***************************************************************************)
(* The engine: CommonMark renderer                                         *)
(***************************************************************************)
\* Text in CommonMark output: a token that could start a construct is
\* escaped with a backslash.
RECURSIVE CMEscape(_)
CMEscape(s) ==
    IF s = << >> THEN << >>
    ELSE (IF s[1] \in Punct THEN <<"\\", s[1]>> ELSE <<s[1]>>) \o CMEscape(Tail(s))

RECURSIVE CMInline(_, _, _)
CMInline(nodes, i, opts) ==
    LET nd == nodes[i]
        kids == Children(nodes, i)
        RECURSIVE Each(_)
        Each(k) == IF k > Len(kids) THEN << >>
                   ELSE CMInline(nodes, kids[k], opts) \o Each(k + 1)
        dest == <<"(", nd.url>>
                    \o (IF nd.title = "" THEN << >> ELSE <<"\"", nd.title, "\"">>)
                    \o <<")">>
    IN  CASE nd.value = "Text" -> CMEscape(nd.literal)
          [] nd.value = "HtmlInline" ->
                IF Flag(opts, "render", "unsafe") THEN nd.literal ELSE << >>
          [] nd.value = "Emph" -> <<"*">> \o Each(1) \o <<"*">>
          [] nd.value = "Strong" -> <<"**">> \o Each(1) \o <<"**">>
          [] nd.value = "FootnoteReference" -> <<ReferenceToken(nd.name)>>
          [] nd.value = "Link" -> <<"[">> \o Each(1) \o <<"]">> \o dest
          [] nd.value = "Image" -> <<"!", "[">> \o Each(1) \o <<"]">> \o dest
          [] OTHER -> Each(1)

\* The number a numeric option holds.
MaxWidth == 8

ToNumber(v) ==
    IF \E n \in 0..MaxWidth : ToString(n) = v
    THEN CHOOSE n \in 0..MaxWidth : ToString(n) = v ELSE 0

\* The number of characters of a token sequence.
RECURSIVE Chars(_)
Chars(s) == IF s = << >> THEN 0 ELSE Len(s[1]) + Chars(Tail(s))

IsBreak(t) == t \in {" ", "\n"}

\* The words of a run of inline output: the runs of tokens between spaces
\* and line breaks.
RECURSIVE WordsOf(_, _)
WordsOf(s, word) ==
    IF s = << >> THEN (IF word = << >> THEN << >> ELSE <<word>>)
    ELSE IF IsBreak(s[1])
    THEN (IF word = << >> THEN << >> ELSE <<word>>) \o WordsOf(Tail(s), << >>)
    ELSE WordsOf(Tail(s), Append(word, s[1]))

\* The words on lines of at most `width` columns: a word that does not fit
\* after the words of the line begins the next line, and a word is never
\* broken.  `column` is the length of the line so far.
RECURSIVE Fill(_, _, _)
Fill(words, width, column) ==
    IF words = << >> THEN << >>
    ELSE IF column = 0
    THEN words[1] \o Fill(Tail(words), width, Chars(words[1]))
    ELSE IF column + 1 + Chars(words[1]) <= width
    THEN <<" ">> \o words[1]
             \o Fill(Tail(words), width, column + 1 + Chars(words[1]))
    ELSE <<"\n">> \o words[1] \o Fill(Tail(words), width, Chars(words[1]))

\* Column-based wrapping of a paragraph: none under width 0.
Wrapped(s, width) == IF width = 0 THEN s ELSE Fill(WordsOf(s, << >>), width, 0)

\* The source of the items of a list: the marker, the task marker of a task
\* item, the content; a line break between two items, and a blank line as
\* well in a list that is not tight.
RECURSIVE CMItems(_, _, _, _)
CMItems(nodes, items, tight, opts) ==
    IF items = << >> THEN << >>
    ELSE LET nd == nodes[items[1]]
             box == IF nd.value # "TaskItem" THEN << >>
                    ELSE IF nd.symbol = "null" THEN <<"[ ]">>
                    ELSE <<"[" \o nd.symbol \o "]">>
         IN  <<"-">> \o box \o CMInline(nodes, items[1], opts)
                 \o (IF Len(items) = 1 THEN << >>
                     ELSE IF tight THEN <<"\n">> ELSE <<"\n", "\n">>)
                 \o CMItems(nodes, Tail(items), tight, opts)

\* The source block of a block node; << >> when the node leaves nothing.
CMBlock(nodes, i, opts) ==
    LET nd == nodes[i]
    IN  CASE nd.value = "Paragraph" ->
                Wrapped(CMInline(nodes, i, opts),
                        ToNumber(Opt(opts, "render", "width")))
          [] nd.value = "Heading" ->
                <<IF nd.level = 1 THEN "#" ELSE "##">> \o CMInline(nodes, i, opts)
          [] nd.value = "ThematicBreak" -> <<"-----">>
          [] nd.value = "FrontMatter" -> nd.literal
          [] nd.value = "HtmlBlock" ->
                IF Flag(opts, "render", "unsafe") THEN nd.literal ELSE << >>
          [] nd.value = "CodeBlock" ->
                <<FenceOf(nd.info)>> \o nd.literal \o <<"~~~">>
          [] nd.value = "FootnoteDefinition" ->
                <<DefinitionToken(nd.name)>> \o CMInline(nodes, nd.first_child, opts)
          [] nd.value = "List" -> CMItems(nodes, Children(nodes, i), nd.tight, opts)
          [] OTHER -> << >>

\* format_commonmark: the blocks of the document, blank-line separated.
format_commonmark(nodes, opts, sa, ha, blc, img, lnk) ==
    LET kids == IF nodes = << >> THEN << >> ELSE Children(nodes, 1)
        blocks == [ k \in 1..Len(kids) |-> CMBlock(nodes, kids[k], opts) ]
    IN  [ st |-> "ok",
          out |-> SelectSeq(blocks, LAMBDA b : b # << >>),
          calls |-> << >>, sa |-> sa, ha |-> ha ]

(***************************************************************************)
(* The engine: the single-step conversions                                 *)
(***************************************************************************)
\* convert(text, config, plugins) = render(parse(text, config), config, plugins)
Convert(p, r) ==
    IF p.st = "throw"
    THEN [ st |-> "throw", out |-> << >>, calls |-> p.calls ]
    ELSE [ r EXCEPT !.calls = p.calls \o r.calls ]

markdown_to_html(text, opts, sa, ha, blc, img, lnk) ==
    LET p == parse_document(text, opts, blc, img, lnk)
    IN  Received(Convert(p, format_html(p.nodes, opts, sa, ha, blc, img, lnk)),
                 sa, ha)

markdown_to_xml(text, opts, sa, ha, blc, img, lnk) ==
    LET p == parse_document(text, opts, blc, img, lnk)
    IN  Received(Convert(p, format_xml(p.nodes, opts, sa, ha, blc, img, lnk)),
                 sa, ha)

markdown_to_commonmark(text, opts, sa, ha, blc, img, lnk) ==
    LET p == parse_document(text, opts, blc, img, lnk)
    IN  Received(Convert(p, format_commonmark(p.nodes, opts, sa, ha, blc, img, lnk)),
                 sa, ha)

(***************************************************************************)
(* The binding: html.ts, xml.ts, cm.ts, parse.ts                           *)
(***************************************************************************)
\* A call that collectOptions ended with an exception.
Thrown == [ st |-> "throw", out |-> << >>, calls |-> << >> ]

\* A markdownToHTML that spreads the tuple with its last two elements in
\* each other's place.
markdownToHTMLSwappingRewriters(text, o, d) ==
    LET a == collectOptions(o, d)
    IN  IF a.threw THEN Thrown
        ELSE markdown_to_html(text, a.opts, a.syntaxAdapter, a.headingAdapter,
                              a.brokenLinkCallback, a.linkURLRewriter,
                              a.imageURLRewriter)

\* A markdownToHTML that hands the link rewriter to the engine for images
\* as well.
markdownToHTMLOneRewriter(text, o, d) ==
    LET a == collectOptions(o, d)
    IN  IF a.threw THEN Thrown
        ELSE markdown_to_html(text, a.opts, a.syntaxAdapter, a.headingAdapter,
                              a.brokenLinkCallback, a.linkURLRewriter,
                              a.linkURLRewriter)

\* `o` is the caller's options object, `d` the content of defaultOptions.
markdownToHTML(text, o, d) ==
    LET a == collectOptions(o, d)
    IN  IF a.threw THEN Thrown
        ELSE markdown_to_html(text, a.opts, a.syntaxAdapter, a.headingAdapter,
                              a.brokenLinkCallback, a.imageURLRewriter,
                              a.linkURLRewriter)

\* A renderHTML that hands the engine no heading adapter.
renderHTMLWithoutHeadingAdapter(nodes, o, d) ==
    LET a == collectOptions(o, d)
    IN  IF a.threw THEN Thrown
        ELSE format_html(nodes, a.opts, a.syntaxAdapter, "null",
                         a.brokenLinkCallback, a.imageURLRewriter, a.linkURLRewriter)

renderHTML(nodes, o, d) ==
    LET a == collectOptions(o, d)
    IN  IF a.threw THEN Thrown
        ELSE format_html(nodes, a.opts, a.syntaxAdapter, a.headingAdapter,
                         a.brokenLinkCallback, a.imageURLRewriter, a.linkURLRewriter)

\* A markdownToXML that answers the empty text itself
\* (`if (!markdown) return ""`).
markdownToXMLShortCut(text, o, d) ==
    LET a == collectOptions(o, d)
    IN  IF a.threw THEN Thrown
        ELSE IF text = << >> THEN [ st |-> "ok", out |-> << >>, calls |-> << >> ]
        ELSE markdown_to_xml(text, a.opts, a.syntaxAdapter, a.headingAdapter,
                             a.brokenLinkCallback, a.imageURLRewriter,
                             a.linkURLRewriter)

markdownToXML(text, o, d) ==
    LET a == collectOptions(o, d)
    IN  IF a.threw THEN Thrown
        ELSE markdown_to_xml(text, a.opts, a.syntaxAdapter, a.headingAdapter,
                             a.brokenLinkCallback, a.imageURLRewriter,
                             a.linkURLRewriter)

renderXML(nodes, o, d) ==
    LET a == collectOptions(o, d)
    IN  IF a.threw THEN Thrown
        ELSE format_xml(nodes, a.opts, a.syntaxAdapter, a.headingAdapter,
                        a.brokenLinkCallback, a.imageURLRewriter, a.linkURLRewriter)

\* A markdownToCommonMark that hands the engine the default options.
markdownToCommonMarkOfDefaults(text, o, d) ==
    LET a == collectOptions(Empty, d)
    IN  IF a.threw THEN Thrown
        ELSE markdown_to_commonmark(text, a.opts, "null", "null",
                                    a.brokenLinkCallback, a.imageURLRewriter,
                                    a.linkURLRewriter)

\* `const [opts, , , ...fns] = collectOptions(options)`, then
\* `(md, opts, null, null, ...fns)`.
markdownToCommonMark(text, o, d) ==
    LET a == collectOptions(o, d)
    IN  IF a.threw THEN Thrown
        ELSE markdown_to_commonmark(text, a.opts, "null", "null",
                                    a.brokenLinkCallback, a.imageURLRewriter,
                                    a.linkURLRewriter)

renderCommonMark(nodes, o, d) ==
    LET a == collectOptions(o, d)
    IN  IF a.threw THEN Thrown
        ELSE format_commonmark(nodes, a.opts, "null", "null", a.brokenLinkCallback,
                               a.imageURLRewriter, a.linkURLRewriter)

\* `[opts, , ...fns]`: one hole too few, so the heading adapter lands in the
\* broken-link slot and the link rewriter is passed nowhere.
parseMarkdownOneHole(text, o, d) ==
    LET a == collectOptions(o, d)
    IN  IF a.threw THEN [ st |-> "throw", nodes |-> << >>, calls |-> << >> ]
        ELSE parse_document(text, a.opts, a.headingAdapter, a.brokenLinkCallback,
                            a.imageURLRewriter)

\* `const [opts, , , ...fns] = collectOptions(options)`, then
\* `parse_document(markdown, opts, ...fns)`.
parseMarkdown(text, o, d) ==
    LET a == collectOptions(o, d)
    IN  IF a.threw THEN [ st |-> "throw", nodes |-> << >>, calls |-> << >> ]
        ELSE parse_document(text, a.opts, a.brokenLinkCallback, a.imageURLRewriter,
                            a.linkURLRewriter)

\* A renderCommonMark that clears `plugins` on the object it was given
\* instead of passing two nulls.
CallerOptionsAfterClearingPlugins(fn, o) ==
    IF fn = "renderCommonMark"
    THEN [ g \in (DOMAIN o) \ {"plugins"} |-> o[g] ]
    ELSE o

\* A collectOptions that takes the extension group out of the object it was
\* given (`delete options.extension` after the merge).
CallerOptionsAfterTakingExtension(fn, o) ==
    [ g \in (DOMAIN o) \ {"extension"} |-> o[g] ]

\* A collectOptions that merges the caller's groups into the module-level
\* object (`Object.assign(defaultOptions.extension, options?.extension)`).
DefaultOptionsAfterMergingInPlace(o, d) == MergedOptions(o, d)

\* The module-level defaultOptions after a call of collectOptions: the
\* function clones it (`Options.default()`) and spreads the clone and the
\* caller's groups into new object literals.
DefaultOptionsAfter(o, d) == d

\* A collectOptions that writes the merged groups back into the caller's
\* options object.
CallerOptionsAfterFillingDefaults(fn, o) ==
    [ g \in {"extension", "parse", "render"} \cup DOMAIN o |->
        IF g = "plugins" THEN o[g]
        ELSE Spread(DefaultOptionsValue[g], Group(o, g)) ]

\* The caller's options object after a call of the binding: collectOptions
\* builds new objects and writes to none it was given.
CallerOptionsAfter(fn, o) == o

(***************************************************************************)
(* The binding of mod.ts (the first markdownToHTML of the file)            *)
(***************************************************************************)
\* `v ?? dflt` on property k of obj.
Nullish(obj, k, dflt) ==
    IF k \in DOMAIN obj /\ obj[k] \notin {"null", "undefined"} THEN obj[k] ELSE dflt

\* `const { extension = {}, parse = {}, render = {} } = options`
ModGroup(o, g) == IF g \in DOMAIN o THEN o[g] ELSE Empty

\* The flat options object of mod.ts lines 323-341.
ModOptions(o) ==
    LET extension == ModGroup(o, "extension")
        parse == ModGroup(o, "parse")
        render == ModGroup(o, "render")
    IN  [ extension_autolink |-> Nullish(extension, "autolink", "false"),
          extension_description_lists |->
              Nullish(extension, "descriptionLists", "false"),
          extension_footnotes |-> Nullish(extension, "footnotes", "false"),
          extension_front_matter_delimiter |->
              Nullish(extension, "frontMatterDelimiter", "---"),
          extension_header_ids |-> Nullish(extension, "headerIDs", ""),
          extension_strikethrough |-> Nullish(extension, "strikethrough", "false"),
          extension_superscript |-> Nullish(extension, "superscript", "false"),
          extension_table |-> Nullish(extension, "table", "false"),
          extension_tagfilter |-> Nullish(extension, "tagfilter", "false"),
          extension_tasklist |-> Nullish(extension, "tasklist", "false"),
          parse_default_into_string |-> Nullish(parse, "defaultInfoString", ""),
          parse_smart |-> Nullish(parse, "smart", "false"),
          render_escape |-> Nullish(render, "escape", "false"),
          render_github_pre_lang |-> Nullish(render, "githubPreLang", "false"),
          render_hardbreaks |-> Nullish(render, "hardbreaks", "false"),
          render_unsafe |-> Nullish(render, "unsafe", "false"),
          render_width |-> Nullish(render, "width", "0") ]

\* The engine configuration a flat options object (lib/comrak_wasm.d.ts)
\* stands for.
ConfigOfFlat(f) ==
    [ extension |->
        [ autolink |-> f.extension_autolink,
          descriptionLists |-> f.extension_description_lists,
          footnotes |-> f.extension_footnotes,
          frontMatterDelimiter |-> f.extension_front_matter_delimiter,
          headerIDs |-> f.extension_header_ids,
          strikethrough |-> f.extension_strikethrough,
          superscript |-> f.extension_superscript,
          table |-> f.extension_table,
          tagfilter |-> f.extension_tagfilter,
          tasklist |-> f.extension_tasklist ],
      parse |->
        [ defaultInfoString |-> f.parse_default_into_string,
          smart |-> f.parse_smart ],
      render |->
        [ escape |-> f.render_escape,
          githubPreLang |-> f.render_github_pre_lang,
          hardbreaks |-> f.render_hardbreaks,
          unsafe |-> f.render_unsafe,
          width |-> f.render_width ] ]

\* mod.ts markdownToHTML: no plugin and no callback reaches the engine.
ModMarkdownToHTML(text, o) ==
    markdown_to_html(text, ConfigOfFlat(ModOptions(o)), "null", "null", "null",
                     "null", "null")

(***************************************************************************)
(* Inputs                                                                  *)
(***************************************************************************)
\* The blocks a Markdown text is drawn from.
Blocks ==
    { <<"a", "!">>,
      <<"_", "a", "_">>,
      <<"#", "T">>,
      <<"---", "K", "---">>,
      <<"~~~", "c", "~~~">>,
      <<"<", "i", ">">>,
      <<"<", "xmp", ">">>,
      <<"x", "<", "xmp", ">">>,
      <<"<", "xmp">>,
      <<"[", "r", "]">>,
      <<"!", "[", "r", "]">>,
      <<"[", "r", "]", ":", "u">> }

RECURSIVE TextsOfLen(_)
TextsOfLen(n) ==
    IF n = 0 THEN { << >> }
    ELSE { Append(t, b) : t \in TextsOfLen(n - 1), b \in Blocks }

Texts == UNION { TextsOfLen(n) : n \in 0..MaxBlocks }

\* An options object with the one group g.
One(g, props) == [ k \in {g} |-> props ]

\* The options objects a caller passes; Empty is also the call without one.
UserOptions ==
    { Empty }
    \cup { One("extension", x) :
             x \in { [ tagfilter |-> "true" ],
                     [ headerIDs |-> "p-" ],
                     [ frontMatterDelimiter |-> "---" ],
                     [ linkURLRewriter |-> "fn.rw" ],
                     [ linkURLRewriter |-> "obj.rwthrow" ],
                     [ imageURLRewriter |-> "obj.rw" ] } }
    \cup { One("render", x) :
             x \in { [ unsafe |-> "true" ],
                     [ escape |-> "true" ],
                     [ unsafe |-> "true", escape |-> "true" ] } }
    \cup { [ extension |-> [ tagfilter |-> "true" ], render |-> x ] :
             x \in { [ unsafe |-> "true" ],
                     [ escape |-> "true" ] } }
    \cup { One("parse", [ brokenLinkCallback |-> cb ]) :
             cb \in {"fn.none", "fn.undef", "fn.ok", "fn.throw", "obj.ok",
                     "obj.throw", "obj.bad"} }
    \cup { One("plugins", One("render", x)) :
             x \in { [ headingAdapter |-> "ha.ok" ],
                     [ headingAdapter |-> "ha.throw" ],
                     [ codefenceSyntaxHighlighter |-> "sh.ok" ],
                     [ codefenceSyntaxHighlighter |-> "sh.throw" ] } }

\* The texts of at most n blocks drawn from a set of blocks.
RECURSIVE TextsOver(_, _)
TextsOver(blocks, n) ==
    IF n = 0 THEN { << >> }
    ELSE LET shorter == TextsOver(blocks, n - 1)
         IN  shorter \cup { Append(t, b) : t \in shorter, b \in blocks }

\* Blocks whose nodes the plugin hooks apply to: headings (one holding a
\* link), a fenced code block, a link, an image and an undefined reference.
PluginBlocks ==
    { <<"#", "T">>,
      <<"#", "[", "r", "]", "(", "u", ")">>,
      <<"##", "K">>,
      <<"~~~rs", "c", "~~~">>,
      <<"~~~a\"b m", "c", "~~~">>,
      <<"[", "r", "]", "(", "u", ")">>,
      <<"!", "[", "r", "]", "(", "u", ")">>,
      <<"[", "r", "]">> }

PluginTexts == TextsOver(PluginBlocks, MaxBlocks)

\* Options objects that configure plugin hooks, alone and together.
PluginOptions ==
    { Empty,
      One("plugins", One("render", [ headingAdapter |-> "ha.ok" ])),
      One("plugins", One("render", [ headingAdapter |-> "HeadingAdapter.ok" ])),
      One("plugins", One("render", [ codefenceSyntaxHighlighter |-> "sh.ok" ])),
      One("extension", [ linkURLRewriter |-> "fn.rw" ]),
      One("plugins", One("render", [ codefenceSyntaxHighlighter |-> "sh.bare" ])),
      One("render", [ fullInfoString |-> "true" ]),
      [ render |-> [ githubPreLang |-> "true" ],
        plugins |-> One("render", [ codefenceSyntaxHighlighter |-> "sh.nopre" ]) ],
      [ render |-> [ fullInfoString |-> "true" ],
        plugins |-> One("render", [ codefenceSyntaxHighlighter |-> "sh.nocode" ]) ],
      [ render |-> [ githubPreLang |-> "true", fullInfoString |-> "true" ],
        plugins |-> One("render", [ codefenceSyntaxHighlighter |-> "sh.bare" ]) ],
      [ extension |-> [ headerIDs |-> "p-" ],
        plugins |-> One("render", [ headingAdapter |-> "ha.ok" ]) ],
      [ extension |-> [ linkURLRewriter |-> "obj.rwthrow" ],
        plugins |-> One("render", [ headingAdapter |-> "ha.ok",
                                    codefenceSyntaxHighlighter |-> "sh.ok" ]) ],
      [ extension |-> [ linkURLRewriter |-> "fn.rw",
                        imageURLRewriter |-> "obj.rw" ],
        parse |-> [ brokenLinkCallback |-> "fn.ok" ],
        plugins |-> One("render", [ headingAdapter |-> "ha.ok",
                                    codefenceSyntaxHighlighter |-> "sh.ok" ]) ] }

(***************************************************************************)
(* The state machine                                                       *)
(***************************************************************************)
\* The record of the last call: its name, its text or previous output, the
\* configuration it handed to the engine, how it ended, what it returned,
\* the callbacks it invoked, and the syntax highlighter and heading adapter
\* it handed to the engine ("none" when the engine function takes none or
\* was not called).
Call(fn, arg, config, r) ==
    [ fn |-> fn, arg |-> arg, config |-> config, st |-> r.st, out |-> r.out,
      calls |-> r.calls,
      sa |-> IF "sa" \in DOMAIN r THEN r.sa ELSE "none",
      ha |-> IF "ha" \in DOMAIN r THEN r.ha ELSE "none" ]

NoCall == [ fn |-> "none", arg |-> << >>, config |-> Empty, st |-> "none",
            out |-> << >>, calls |-> << >>, sa |-> "none", ha |-> "none" ]

\* The first element of the tuple collectOptions returns.
Handed(o, d) == collectOptions(o, d).opts

NoAST == [ has |-> FALSE, nodes |-> << >> ]

NotRendered == [ has |-> FALSE, st |-> "none", out |-> << >> ]

\* `rendered` after renderer fn returned r: the first return is kept.
Remember(fn, r) ==
    IF rendered[fn].has THEN rendered
    ELSE [ rendered EXCEPT ![fn] = [ has |-> TRUE, st |-> r.st, out |-> r.out ] ]

\* Nothing returned by Options.default() yet; `fresh` is the address the
\* last step obtained from Options.default(), 0 after any other step.
NoDefaults == [ objects |-> DefaultsObjects, returned |-> << >>, fresh |-> 0 ]

\* What a caller holds: its text, its options, its AST and the first
\* outputs it obtained from that AST.
Holding(text, o, tree, outputs) ==
    [ md |-> text, options |-> o, ast |-> tree, rendered |-> outputs ]

NeverRendered ==
    [ fn \in {"renderHTML", "renderXML", "renderCommonMark"} |-> NotRendered ]

\* No second caller.
NoOther == Holding(<< >>, Empty, NoAST, NeverRendered)

\* The options that change how block b is read or written: the callback for
\* a reference, the raw-HTML options for raw HTML, the delimiter for front
\* matter.
OptionsFor(b) ==
    CASE b \in { <<"[", "r", "]">>, <<"!", "[", "r", "]">>,
                 <<"[", "r", "]", ":", "u">> } ->
            { o \in UserOptions : "parse" \in DOMAIN o }
      [] \E k \in DOMAIN b : b[k] = "<" ->
            { o \in UserOptions :
                \/ "render" \in DOMAIN o
                \/ IsSet(o, "extension", "tagfilter") }
      [] b[1] = "---" ->
            { o \in UserOptions : IsSet(o, "extension", "frontMatterDelimiter") }
      [] OTHER -> { }

\* A text of fewer than MaxBlocks blocks is converted under every options
\* object, a text of MaxBlocks blocks without options and under the options
\* that apply to each of its blocks.
Init ==
    /\ heap = NoDefaults
    /\ other = NoOther
    /\ defaultOptions = DefaultOptionsValue
    /\ md \in Texts
    /\ options \in UserOptions
    /\ Len(md) = MaxBlocks =>
           \/ options = Empty
           \/ \A k \in DOMAIN md : options \in OptionsFor(md[k])
    /\ ast = NoAST
    /\ result = NoCall
    /\ rendered = [ fn \in {"renderHTML", "renderXML", "renderCommonMark"} |->
                      NotRendered ]

MarkdownToHTML ==
    /\ result' = Call("markdownToHTML", md, Handed(options, defaultOptions),
                      markdownToHTML(md, options, defaultOptions))
    /\ options' = CallerOptionsAfter("markdownToHTML", options)
    /\ defaultOptions' = DefaultOptionsAfter(options, defaultOptions)
    /\ UNCHANGED <<heap, other, md, ast, rendered>>

MarkdownToXML ==
    /\ result' = Call("markdownToXML", md, Handed(options, defaultOptions),
                      markdownToXML(md, options, defaultOptions))
    /\ options' = CallerOptionsAfter("markdownToXML", options)
    /\ defaultOptions' = DefaultOptionsAfter(options, defaultOptions)
    /\ UNCHANGED <<heap, other, md, ast, rendered>>

MarkdownToCommonMark ==
    /\ result' = Call("markdownToCommonMark", md,
                      Handed(options, defaultOptions),
                      markdownToCommonMark(md, options, defaultOptions))
    /\ options' = CallerOptionsAfter("markdownToCommonMark", options)
    /\ defaultOptions' = DefaultOptionsAfter(options, defaultOptions)
    /\ UNCHANGED <<heap, other, md, ast, rendered>>

\* `c = markdownToCommonMark(text, opts)` is converted again.
ReconvertCommonMark ==
    /\ result.fn = "markdownToCommonMark"
    /\ result.st = "ok"
    /\ result' = Call("markdownToCommonMark.again", result.out,
                      Handed(options, defaultOptions),
                      markdownToCommonMark(result.out, options, defaultOptions))
    /\ options' = CallerOptionsAfter("markdownToCommonMark", options)
    /\ defaultOptions' = DefaultOptionsAfter(options, defaultOptions)
    /\ UNCHANGED <<heap, other, md, ast, rendered>>

\* `ast = parseMarkdown(md, options)`: a call that throws assigns nothing.
ParseMarkdown ==
    /\ ~ast.has
    /\ LET p == parseMarkdown(md, options, defaultOptions)
       IN  /\ result' = Call("parseMarkdown", md,
                             Handed(options, defaultOptions),
                             [ st |-> p.st, out |-> << >>, calls |-> p.calls ])
           /\ ast' = IF p.st = "ok" THEN [ has |-> TRUE, nodes |-> p.nodes ]
                     ELSE ast
    /\ options' = CallerOptionsAfter("parseMarkdown", options)
    /\ defaultOptions' = DefaultOptionsAfter(options, defaultOptions)
    /\ UNCHANGED <<heap, other, md, rendered>>

RenderHTML ==
    /\ ast.has
    /\ LET r == renderHTML(ast.nodes, options, defaultOptions)
       IN  /\ result' = Call("renderHTML", << >>,
                             Handed(options, defaultOptions), r)
           /\ rendered' = Remember("renderHTML", r)
    /\ options' = CallerOptionsAfter("renderHTML", options)
    /\ defaultOptions' = DefaultOptionsAfter(options, defaultOptions)
    /\ UNCHANGED <<heap, other, md, ast>>

RenderXML ==
    /\ ast.has
    /\ LET r == renderXML(ast.nodes, options, defaultOptions)
       IN  /\ result' = Call("renderXML", << >>,
                             Handed(options, defaultOptions), r)
           /\ rendered' = Remember("renderXML", r)
    /\ options' = CallerOptionsAfter("renderXML", options)
    /\ defaultOptions' = DefaultOptionsAfter(options, defaultOptions)
    /\ UNCHANGED <<heap, other, md, ast>>

RenderCommonMark ==
    /\ ast.has
    /\ LET r == renderCommonMark(ast.nodes, options, defaultOptions)
       IN  /\ result' = Call("renderCommonMark", << >>,
                             Handed(options, defaultOptions), r)
           /\ rendered' = Remember("renderCommonMark", r)
    /\ options' = CallerOptionsAfter("renderCommonMark", options)
    /\ defaultOptions' = DefaultOptionsAfter(options, defaultOptions)
    /\ UNCHANGED <<heap, other, md, ast>>

\* The markdownToHTML of mod.ts.
LegacyMarkdownToHTML ==
    /\ result' = Call("mod.markdownToHTML", md,
                      ConfigOfFlat(ModOptions(options)),
                      ModMarkdownToHTML(md, options))
    /\ UNCHANGED <<heap, other, defaultOptions, md, options, ast, rendered>>

Next ==
    \/ MarkdownToHTML
    \/ MarkdownToXML
    \/ MarkdownToCommonMark
    \/ ReconvertCommonMark
    \/ ParseMarkdown
    \/ RenderHTML
    \/ RenderXML
    \/ RenderCommonMark
    \/ LegacyMarkdownToHTML

Spec == Init /\ [][Next]_vars

\* Options object o configures plugin hook k.
ConfiguresPlugin(o, k) ==
    /\ "plugins" \in DOMAIN o
    /\ k \in DOMAIN o.plugins.render

\* The options that apply to block b: a heading adapter or a header-ID
\* prefix to a heading, a highlighter or a render flag to a code block, a
\* rewriter or a broken-link callback to a link, an image or a reference.
PluginOptionsFor(b) ==
    CASE b[1] \in {"#", "##"} ->
            { o \in PluginOptions :
                \/ ConfiguresPlugin(o, "headingAdapter")
                \/ IsSet(o, "extension", "headerIDs") }
      [] b[1] \in Fences ->
            { o \in PluginOptions :
                \/ ConfiguresPlugin(o, "codefenceSyntaxHighlighter")
                \/ "render" \in DOMAIN o }
      [] OTHER ->
            { o \in PluginOptions :
                \/ IsSet(o, "extension", "linkURLRewriter")
                \/ IsSet(o, "extension", "imageURLRewriter")
                \/ IsSet(o, "parse", "brokenLinkCallback") }

\* The same calls on texts and options that exercise the plugin hooks; a
\* text of MaxBlocks blocks is converted without options and under the
\* options that apply to each of its blocks.
InitPlugins ==
    /\ heap = NoDefaults
    /\ other = NoOther
    /\ defaultOptions = DefaultOptionsValue
    /\ md \in PluginTexts
    /\ options \in PluginOptions
    /\ Len(md) = MaxBlocks =>
           \/ options = Empty
           \/ \A k \in DOMAIN md : options \in PluginOptionsFor(md[k])
    /\ ast = NoAST
    /\ result = NoCall
    /\ rendered = [ fn \in {"renderHTML", "renderXML", "renderCommonMark"} |->
                      NotRendered ]

PluginSpec == InitPlugins /\ [][Next]_vars

(***************************************************************************)
(* Two callers, each with its own text, options and AST                    *)
(***************************************************************************)
CallerTexts == { << <<"#", "T">> >>, << <<"<", "i", ">">>, <<"[", "r", "]">> >> }

CallerOptions ==
    { Empty,
      [ extension |-> [ headerIDs |-> "p-" ], render |-> [ unsafe |-> "true" ] ],
      [ parse |-> [ brokenLinkCallback |-> "fn.ok" ],
        plugins |-> One("render", [ headingAdapter |-> "ha.ok" ]) ] }

InitCallers ==
    /\ heap = NoDefaults
    /\ defaultOptions = DefaultOptionsValue
    /\ md \in CallerTexts
    /\ options \in CallerOptions
    /\ \E text \in CallerTexts, o \in CallerOptions :
           other = Holding(text, o, NoAST, NeverRendered)
    /\ ast = NoAST
    /\ result = NoCall
    /\ rendered = NeverRendered

\* The other caller makes the next calls.  JavaScript runs each call of the
\* binding to its end, so the callers interleave call by call.
SwitchCaller ==
    /\ md' = other.md
    /\ options' = other.options
    /\ ast' = other.ast
    /\ rendered' = other.rendered
    /\ other' = Holding(md, options, ast, rendered)
    /\ result' = NoCall
    /\ UNCHANGED <<heap, defaultOptions>>

NextCallers ==
    \/ Next
    \/ SwitchCaller

CallersSpec == InitCallers /\ [][NextCallers]_vars

(***************************************************************************)
(* Conversions of headings                                                 *)
(***************************************************************************)
\* Most blocks in a text of headings.
MaxHeadingBlocks == 2

\* ATX headings of both levels, a setext heading, a heading that holds a
\* link, and a paragraph.
HeadingBlocks ==
    { <<"#", "T">>,
      <<"##", "K", "!", "a">>,
      <<"K", "---">>,
      <<"#", "[", "r", "]", "(", "u", ")">>,
      <<"a", "!">> }

\* headerIDs absent, null, undefined, the empty prefix and a prefix, with
\* and without a heading adapter.
HeadingOptions ==
    { Empty,
      One("extension", [ headerIDs |-> "p-" ]),
      One("extension", [ headerIDs |-> "" ]),
      One("extension", [ headerIDs |-> "null" ]),
      One("extension", [ headerIDs |-> "undefined" ]),
      One("plugins", One("render", [ headingAdapter |-> "ha.ok" ])),
      [ extension |-> [ headerIDs |-> "p-" ],
        plugins |-> One("render", [ headingAdapter |-> "HeadingAdapter.ok" ]) ],
      [ extension |-> [ headerIDs |-> "" ],
        plugins |-> One("render", [ headingAdapter |-> "ha.ok" ]) ] }

InitHeadings ==
    /\ heap = NoDefaults
    /\ other = NoOther
    /\ defaultOptions = DefaultOptionsValue
    /\ md \in TextsOver(HeadingBlocks, MaxHeadingBlocks)
    /\ options \in HeadingOptions
    /\ ast = NoAST
    /\ result = NoCall
    /\ rendered = NeverRendered

HeadingSpec == InitHeadings /\ [][Next]_vars

(***************************************************************************)
(* Conversions of lists                                                    *)
(***************************************************************************)
\* Most blocks in a text of lists.
MaxListBlocks == 2

\* Lists of one to three items: without a blank line, with a blank line
\* between two items, with blank lines after the last item only, a list
\* that a paragraph follows after a blank line; and a paragraph.
ListBlocks ==
    { <<"-", "a">>,
      <<"-", "a", "\n", "-", "b">>,
      <<"-", "a", "\n", "\n", "-", "b">>,
      <<"-", "a", "\n", "-", "b", "\n", "\n">>,
      <<"-", "a", "\n", "-", "b", "\n", "\n", "-", "c">>,
      <<"-", "a", "\n", "\n", "\n">>,
      <<"-", "a", "\n", "\n", "b">>,
      <<"a", "!">> }

ListOptions == { Empty, One("extension", [ tasklist |-> "true" ]) }

InitLists ==
    /\ heap = NoDefaults
    /\ other = NoOther
    /\ defaultOptions = DefaultOptionsValue
    /\ md \in TextsOver(ListBlocks, MaxListBlocks)
    /\ options \in ListOptions
    /\ ast = NoAST
    /\ result = NoCall
    /\ rendered = NeverRendered

ListSpec == InitLists /\ [][Next]_vars

(***************************************************************************)
(* Conversions of task lists                                               *)
(***************************************************************************)
\* Most blocks in a text of task lists.
MaxTaskBlocks == 2

\* Items with each of the task markers, in a tight and in a loose list,
\* and an item without marker.
TaskBlocks ==
    { <<"-", "[x]", "a", "\n", "-", "[ ]", "b">>,
      <<"-", "[X]", "a">>,
      <<"-", "[-]", "a">>,
      <<"-", "[ ]", "a", "\n", "\n", "-", "[-]", "b">>,
      <<"-", "a">> }

TaskOptions ==
    { Empty,
      One("extension", [ tasklist |-> "true" ]),
      One("parse", [ relaxedTasklistMatching |-> "true" ]),
      [ extension |-> [ tasklist |-> "true" ],
        parse |-> [ relaxedTasklistMatching |-> "true" ] ],
      [ extension |-> [ tasklist |-> "true" ],
        parse |-> [ relaxedTasklistMatching |-> "false" ] ] }

InitTasks ==
    /\ heap = NoDefaults
    /\ other = NoOther
    /\ defaultOptions = DefaultOptionsValue
    /\ md \in TextsOver(TaskBlocks, MaxTaskBlocks)
    /\ options \in TaskOptions
    /\ ast = NoAST
    /\ result = NoCall
    /\ rendered = NeverRendered

TaskSpec == InitTasks /\ [][Next]_vars

(***************************************************************************)
(* Conversions to CommonMark with a wrap column                            *)
(***************************************************************************)
\* Most paragraphs in a text.
MaxParagraphs == 2

\* Paragraphs of words of one to eight characters; `abcd` `efgh` without a
\* space between them is the one word `abcdefgh`.
WrapBlocks ==
    { <<"aa", " ", "bbb", " ", "c">>,
      <<"aaaa", " ", "bb", " ", "cc", " ", "dddd">>,
      <<"a", " ", "abcd", "efgh", " ", "b">>,
      <<"a", "!", " ", "bb", " ", "_", "cc", " ", "d", "_">> }

WrapOptions ==
    { Empty,
      One("render", [ width |-> "4" ]),
      One("render", [ width |-> "6" ]) }

InitWrap ==
    /\ heap = NoDefaults
    /\ other = NoOther
    /\ defaultOptions = DefaultOptionsValue
    /\ md \in TextsOver(WrapBlocks, MaxParagraphs)
    /\ options \in WrapOptions
    /\ ast = NoAST
    /\ result = NoCall
    /\ rendered = NeverRendered

WrapSpec == InitWrap /\ [][Next]_vars

(***************************************************************************)
(* Conversions of texts with footnotes                                     *)
(***************************************************************************)
\* Most blocks with references in a text.
MaxNoteBlocks == 2

\* Blocks that refer to footnotes, and the definitions in their orders.
NoteBlocks ==
    { <<"a", "[^y]", "[^x]">>,
      <<"[^x]", "^[n]", "[^y]">>,
      <<"^[m]", "b", "[^x]">>,
      <<"#", "T", "[^y]">> }

NoteDefinitions ==
    { << >>,
      << <<"[^x]:", "X">> >>,
      << <<"[^x]:", "X">>, <<"[^y]:", "Y">> >>,
      << <<"[^y]:", "Y">>, <<"[^x]:", "X">> >> }

NoteTexts ==
    { r \o d : r \in TextsOver(NoteBlocks, MaxNoteBlocks), d \in NoteDefinitions }
        \cup { d \o r : r \in TextsOver(NoteBlocks, MaxNoteBlocks),
                         d \in NoteDefinitions }

NoteOptions ==
    { One("extension", [ footnotes |-> "true" ]),
      One("extension", [ footnotes |-> "true", inlineFootnotes |-> "true" ]),
      One("extension", [ inlineFootnotes |-> "true" ]) }

InitFootnotes ==
    /\ heap = NoDefaults
    /\ other = NoOther
    /\ defaultOptions = DefaultOptionsValue
    /\ md \in NoteTexts
    /\ options \in NoteOptions
    /\ ast = NoAST
    /\ result = NoCall
    /\ rendered = [ fn \in {"renderHTML", "renderXML", "renderCommonMark"} |->
                      NotRendered ]

FootnoteSpec == InitFootnotes /\ [][Next]_vars

(***************************************************************************)
(* A caller of Options.default() that writes to what it got                *)
(***************************************************************************)
\* Most calls of Options.default() in a behaviour.
MaxDefaults == 2

\* The nested writes of the caller: `o.extension.table = true`,
\* `o.render.width = 80`, `o.plugins.render.headingAdapter = ha`.
Writes ==
    { [ path |-> <<"extension">>, key |-> "table", value |-> "true" ],
      [ path |-> <<"render">>, key |-> "width", value |-> "80" ],
      [ path |-> <<"plugins", "render">>, key |-> "headingAdapter",
        value |-> "ha.ok" ] }

\* The properties of the returned object the caller deletes.
Deletes == {"parse", "plugins"}

InitDefaults ==
    /\ heap = NoDefaults
    /\ other = NoOther
    /\ defaultOptions = DefaultOptionsValue
    /\ md = << >>
    /\ options = Empty
    /\ ast = NoAST
    /\ result = NoCall
    /\ rendered = [ fn \in {"renderHTML", "renderXML", "renderCommonMark"} |->
                      NotRendered ]

\* `const o = Options.default()`
CallOptionsDefault ==
    /\ Len(heap.returned) < MaxDefaults
    /\ LET Took(c) == [ objects |-> c.objects,
                        returned |-> Append(heap.returned, c.value.ref),
                        fresh |-> c.value.ref ]
       IN  heap' = Took(OptionsDefaultIn(heap.objects))
    /\ defaultOptions' = ValueAt(heap'.objects, DefaultsAddress)
    /\ UNCHANGED <<md, options, ast, result, rendered, other>>

\* `o.group.key = value` on an object Options.default() returned
WriteNested ==
    /\ \E r \in DOMAIN heap.returned, w \in Writes :
           LET At(a) ==
                   /\ a # 0
                   /\ heap' = [ heap EXCEPT
                                  !.objects = SetProperty(@, a, w.key, w.value),
                                  !.fresh = 0 ]
           IN  At(Follow(heap.objects, heap.returned[r], w.path))
    /\ defaultOptions' = ValueAt(heap'.objects, DefaultsAddress)
    /\ UNCHANGED <<md, options, ast, result, rendered, other>>

\* `delete o.group` on an object Options.default() returned
DeleteGroup ==
    /\ \E r \in DOMAIN heap.returned, g \in Deletes :
           /\ g \in DOMAIN heap.objects[heap.returned[r]]
           /\ heap' = [ heap EXCEPT
                          !.objects = DeleteProperty(@, heap.returned[r], g),
                          !.fresh = 0 ]
    /\ defaultOptions' = ValueAt(heap'.objects, DefaultsAddress)
    /\ UNCHANGED <<md, options, ast, result, rendered, other>>

NextDefaults ==
    \/ CallOptionsDefault
    \/ WriteNested
    \/ DeleteGroup

DefaultsSpec == InitDefaults /\ [][NextDefaults]_vars

(***************************************************************************)
(* Properties                                                              *)
(***************************************************************************)
\* Two calls ended the same way and returned the same.
SameReturn(a, b) == a.st = b.st /\ a.out = b.out

\* `Render(parseMarkdown(text, o), o)`: a parse that throws ends the
\* expression before the renderer is called.
ParseThenRender(Render(_, _, _), text, o, d) ==
    LET p == parseMarkdown(text, o, d)
    IN  IF p.st = "throw" THEN [ st |-> "throw", out |-> << >> ]
        ELSE Render(p.nodes, o, d)

\* C1: for each of HTML, XML and CommonMark the one-step conversion returns
\* what rendering the parsed AST returns under the same options: a one-step
\* call equals the composition of the two calls, and a render of the AST
\* that parseMarkdown assigned equals the one-step call on the same text.
C1_OneStepIsParseThenRender ==
    /\ result.fn = "markdownToHTML" =>
           SameReturn(result,
                      ParseThenRender(renderHTML, md, options, defaultOptions))
    /\ result.fn = "markdownToXML" =>
           SameReturn(result,
                      ParseThenRender(renderXML, md, options, defaultOptions))
    /\ result.fn = "markdownToCommonMark" =>
           SameReturn(result,
                      ParseThenRender(renderCommonMark, md, options,
                                      defaultOptions))
    /\ result.fn = "renderHTML" =>
           SameReturn(result, markdownToHTML(md, options, defaultOptions))
    /\ result.fn = "renderXML" =>
           SameReturn(result, markdownToXML(md, options, defaultOptions))
    /\ result.fn = "renderCommonMark" =>
           SameReturn(result, markdownToCommonMark(md, options, defaultOptions))

\* A render returned the link that a broken-link callback resolved at parse
\* time.
C1_Witness ==
    /\ result.fn = "renderHTML"
    /\ result.st = "ok"
    /\ \E i \in DOMAIN ast.nodes :
           ast.nodes[i].value = "Link" /\ ast.nodes[i].url = ResolvedURL

\* A block that matches no grammar: a tag that is never closed, or a
\* reference whose label the text does not define.
Malformed(b, text) ==
    \/ b[1] = "<" /\ b[Len(b)] # ">"
    \/ /\ b \in { <<"[", "r", "]">>, <<"!", "[", "r", "]">> }
       /\ "r" \notin DOMAIN RefsOf(text)

\* The AST holds a paragraph whose only child is the text b.
PlainParagraph(nodes, b) ==
    \E i \in DOMAIN nodes :
        /\ nodes[i].value = "Paragraph"
        /\ nodes[i].first_child # 0
        /\ nodes[i].first_child = nodes[i].last_child
        /\ nodes[nodes[i].first_child].value = "Text"
        /\ nodes[nodes[i].first_child].literal = b

\* C2: under a configuration that leaves the parse options at their
\* defaults, parseMarkdown returns an AST for every text, rooted in a
\* Document node when the text is not empty, and every block that matches
\* no grammar is in it as a paragraph of plain text.
C2_ParseNeverFails ==
    (result.fn = "parseMarkdown" /\ "parse" \notin DOMAIN options) =>
        /\ result.st = "ok"
        /\ ast.has
        /\ md # << >> => (ast.nodes # << >> /\ ast.nodes[1].value = "Document")
        /\ \A k \in DOMAIN md :
               Malformed(md[k], md) => PlainParagraph(ast.nodes, md[k])

\* parseMarkdown was called without options on a text that holds an
\* unclosed tag and an undefined reference.
C2_Witness ==
    /\ result.fn = "parseMarkdown"
    /\ options = Empty
    /\ \E j, k \in DOMAIN md :
           /\ md[j] = <<"<", "xmp">>
           /\ md[k] = <<"[", "r", "]">>
           /\ PlainParagraph(ast.nodes, md[j])
           /\ PlainParagraph(ast.nodes, md[k])

Renderers == {"renderHTML", "renderXML", "renderCommonMark"}

C4_CommonMarkFixedPoint ==
    (result.fn = "markdownToCommonMark.again" /\ result.st = "ok") =>
        result.out = result.arg

\* The second conversion ran on an output that the first conversion had
\* normalised: an escaped `!` and `*` for `_`.
C4_Witness ==
    /\ result.fn = "markdownToCommonMark.again"
    /\ result.st = "ok"
    /\ md = << <<"a", "!">>, <<"_", "a", "_">> >>
    /\ result.arg = << <<"a", "\\", "!">>, <<"*", "a", "*">> >>
    /\ result.out = result.arg

OneStep == {"markdownToHTML", "markdownToXML", "markdownToCommonMark"}

\* C5 as written: for the empty text each of the three one-step conversions
\* returns the empty string.
C5_EmptyInEmptyOut ==
    (md = << >> /\ result.fn \in OneStep) =>
        (result.st = "ok" /\ result.out = << >>)

\* C5, amended: for the empty text markdownToHTML and markdownToCommonMark
\* return the empty string, and markdownToXML returns a string that is not
\* empty and starts with the fixed XML preamble.
C5_EmptyInput ==
    md = << >> =>
        /\ result.fn \in {"markdownToHTML", "markdownToCommonMark",
                          "mod.markdownToHTML"} =>
               (result.st = "ok" /\ result.out = << >>)
        /\ result.fn = "markdownToXML" =>
               /\ result.st = "ok"
               /\ Len(result.out) >= Len(XMLPreamble)
               /\ SubSeq(result.out, 1, Len(XMLPreamble)) = XMLPreamble

\* markdownToXML returned the preamble for the empty text.
C5_Witness ==
    /\ md = << >>
    /\ result.fn = "markdownToXML"
    /\ result.out = XMLPreamble
    /\ result.out # << >>

\* The field is null, undefined or not there.
Absent(group, k) == k \notin DOMAIN group \/ group[k] \in {"null", "undefined"}

\* A configuration that enables no extension.
NoExtension(config) ==
    /\ \A k \in ExtensionFlags \cap DOMAIN config.extension :
           config.extension[k] = "false"
    /\ Absent(config.extension, "frontMatterDelimiter")
    /\ Absent(config.extension, "headerIDs")
    /\ Absent(config.extension, "imageURLRewriter")
    /\ Absent(config.extension, "linkURLRewriter")

\* The token is a built-in heading anchor.
IsAnchor(t) == \E prefix \in {"", "p-"}, slug \in {"t", "k"} : t = Anchor(prefix, slug)

\* C6: a call without options hands the engine a configuration that enables
\* no extension, and its HTML output is that of the base grammar: no heading
\* anchor, and a leading `---` line is a thematic break, not front matter.
C6_NoOptionsNoExtension ==
    (options = Empty /\ result.fn # "none") =>
        /\ NoExtension(result.config)
        /\ (result.fn \in {"markdownToHTML", "mod.markdownToHTML"}) =>
               /\ \A k \in DOMAIN result.out : ~IsAnchor(result.out[k])
               /\ (md # << >> /\ md[1] = <<"---", "K", "---">>) =>
                      result.out[1] = "<hr />"

\* The calls that return HTML.
ToHTML == {"markdownToHTML", "mod.markdownToHTML", "renderHTML"}

\* The AST the last call rendered.
RenderedAST ==
    IF result.fn = "renderHTML" THEN ast.nodes
    ELSE parse_document(md, result.config, "null", "null", "null").nodes

\* The raw HTML nodes of an AST.
RawNodes(nodes) ==
    { i \in DOMAIN nodes : nodes[i].value \in {"HtmlBlock", "HtmlInline"} }

\* s occurs in out as one contiguous run.
Occurs(s, out) ==
    \E k \in 0..(Len(out) - Len(s)) : SubSeq(out, k + 1, k + Len(s)) = s

\* How often token t occurs in seq.
Count(t, seq) == Cardinality({ k \in DOMAIN seq : seq[k] = t })

\* How often token t occurs in the forms of the raw HTML nodes from i on.
RECURSIVE CountInForms(_, _, _, _)
CountInForms(t, nodes, Form(_), i) ==
    IF i > Len(nodes) THEN 0
    ELSE (IF i \in RawNodes(nodes) THEN Count(t, Form(nodes[i].literal)) ELSE 0)
         + CountInForms(t, nodes, Form, i + 1)

\* Every raw HTML run of the rendered AST is in the output in its form, and
\* the output holds no `<` and no placeholder beyond those forms (the `<` of
\* text is always escaped): no run is there in part.
EachRunWhole(Form(_)) ==
    LET nodes == RenderedAST
    IN  /\ \A i \in RawNodes(nodes) : Occurs(Form(nodes[i].literal), result.out)
        /\ \A t \in {"<", Placeholder[1]} :
               Count(t, result.out) = CountInForms(t, nodes, Form, 1)

\* The caller's options set flag k of group g.
Asked(g, k) ==
    g \in DOMAIN options /\ k \in DOMAIN options[g] /\ options[g][k] = "true"

\* C7 as written: verbatim under render.unsafe, the placeholder otherwise.
VerbatimOrPlaceholder(s) ==
    IF Asked("render", "unsafe") THEN s ELSE Placeholder

WholeForm(s) ==
    IF Asked("render", "escape") THEN Escape(s)
    ELSE IF ~Asked("render", "unsafe") THEN Placeholder
    ELSE IF Asked("extension", "tagfilter") THEN TagFilter(s)
    ELSE s

Denylisted(s) == \E k \in 1..(Len(s) - 1) : s[k] = "<" /\ s[k + 1] \in Denylist

Configured ==
    IF "parse" \in DOMAIN options /\ "brokenLinkCallback" \in DOMAIN options.parse
    THEN options.parse.brokenLinkCallback
    ELSE "absent"

\* No callback, or one that returns null or undefined.
ResolvesNothing ==
    Configured \in {"absent", "null", "fn.none", "fn.undef", "obj.none", "obj.undef"}

\* A callback, function or object with `resolve`, that returns {url, title}.
ResolvesAll == Configured \in {"fn.ok", "obj.ok"}

\* The blocks of the text that are a reference to a label it does not define.
Unresolved ==
    { k \in DOMAIN md :
        /\ md[k] \in { <<"[", "r", "]">>, <<"!", "[", "r", "]">> }
        /\ "r" \notin DOMAIN RefsOf(md) }

\* The AST holds a node of this kind with the resolved url and title around
\* the label.
ResolvedNode(nodes, kind) ==
    \E i \in DOMAIN nodes :
        /\ nodes[i].value = kind
        /\ nodes[i].url = ResolvedURL
        /\ nodes[i].title = ResolvedTitle
        /\ nodes[i].first_child # 0
        /\ nodes[nodes[i].first_child].literal = <<"r">>

KindOf(b) == IF b[1] = "!" THEN "Image" ELSE "Link"

\* The HTML of a link or image with the resolved url and title.
ResolvedHTML(b) ==
    IF b[1] = "!"
    THEN <<"<img src=\"", ResolvedURL, "\" alt=\"", "r", "\"", " title=\"",
           ResolvedTitle, "\"", " />">>
    ELSE <<"<a href=\"", ResolvedURL, "\"", " title=\"", ResolvedTitle, "\"",
           ">", "r", "</a>">>

\* The call was ended by a callback other than the broken-link callback.
OtherCallbackThrew ==
    /\ result.st = "throw"
    /\ result.calls # << >>
    /\ result.calls[Len(result.calls)] # "brokenLinkCallback"

\* C9: for a reference whose label has no definition, parseMarkdown and
\* markdownToHTML raise no error (unless another plugin of the call
\* throws); without a callback, or with one that returns null or undefined,
\* the AST and the HTML keep the bracket text as it was written; with a
\* callback that returns {url, title}, the AST holds a link or image with
\* that url and title and the HTML renders it.
C9_UnresolvedReference ==
    \A k \in Unresolved :
        ~OtherCallbackThrew =>
            /\ (result.fn \in {"parseMarkdown", "markdownToHTML"}
                    /\ (ResolvesNothing \/ ResolvesAll)) => result.st = "ok"
            /\ (result.fn = "parseMarkdown" /\ ResolvesNothing) =>
                   PlainParagraph(ast.nodes, md[k])
            /\ (result.fn = "parseMarkdown" /\ ResolvesAll) =>
                   ResolvedNode(ast.nodes, KindOf(md[k]))
            /\ (result.fn = "markdownToHTML" /\ ResolvesNothing) =>
                   Occurs(<<"<p>">> \o md[k] \o <<"</p>">>, result.out)
            /\ (result.fn = "markdownToHTML" /\ ResolvesAll) =>
                   Occurs(<<"<p>">> \o ResolvedHTML(md[k]) \o <<"</p>">>,
                          result.out)

\* An object with a `resolve` method resolved an undefined link and an
\* undefined image.
C9_Witness ==
    /\ result.fn = "markdownToHTML"
    /\ Configured = "obj.ok"
    /\ md = << <<"[", "r", "]">>, <<"!", "[", "r", "]">> >>
    /\ Unresolved = {1, 2}
    /\ Occurs(ResolvedHTML(md[1]), result.out)
    /\ Occurs(ResolvedHTML(md[2]), result.out)

\* What the caller's options hold at group path and key, "absent" without.
Given(path, k) ==
    LET group == IF Len(path) = 1 THEN Group(options, path[1])
                 ELSE Group(Group(options, path[1]), path[2])
    IN  IF k \in DOMAIN group THEN group[k] ELSE "absent"

\* The last call invoked the named callback.
Invoked(call) == \E k \in DOMAIN result.calls : result.calls[k] = call

\* The last call invoked a callback that the caller configured to throw: a
\* function, a method of a plain object, or a method of an adapter.
InvokedThrowing ==
    \/ /\ Given(<<"parse">>, "brokenLinkCallback") \in {"fn.throw", "obj.throw"}
       /\ Invoked("brokenLinkCallback")
    \/ /\ Given(<<"extension">>, "linkURLRewriter") \in {"fn.rwthrow", "obj.rwthrow"}
       /\ Invoked("linkURLRewriter")
    \/ /\ Given(<<"extension">>, "imageURLRewriter") \in {"fn.rwthrow", "obj.rwthrow"}
       /\ Invoked("imageURLRewriter")
    \/ /\ Given(<<"plugins", "render">>, "headingAdapter")
              \in {"ha.throw", "HeadingAdapter.throw"}
       /\ Invoked("headingAdapter.enter")
    \/ /\ Given(<<"plugins", "render">>, "codefenceSyntaxHighlighter")
              \in {"sh.throw", "SyntaxHighlighterAdapter.throw"}
       /\ Invoked("highlighter.highlight")

\* C10: a parse or render call of the binding in which a plugin callback
\* throws ends with that exception at its caller and returns nothing: no
\* output string, and no AST is assigned by a parse.
C10_CallbackThrowPropagates ==
    (result.fn \notin {"none", "mod.markdownToHTML"} /\ InvokedThrowing) =>
        /\ result.st = "throw"
        /\ result.out = << >>
        /\ result.fn = "parseMarkdown" => ~ast.has

\* The `resolve` method of a broken-link callback object threw during
\* parseMarkdown, and the call threw.
C10_Witness ==
    /\ result.fn = "parseMarkdown"
    /\ Given(<<"parse">>, "brokenLinkCallback") = "obj.throw"
    /\ Invoked("brokenLinkCallback")
    /\ result.st = "throw"
    /\ ~ast.has

\* The caller configured a heading adapter: an instance of the wasm class or
\* a plain object with `enter` and `exit`.
HeadingAdapterGiven ==
    Given(<<"plugins", "render">>, "headingAdapter") \in HAObjects \cup HAInstances

\* The AST an HTML call of the binding rendered.
HTMLCallAST ==
    IF result.fn = "renderHTML" THEN ast.nodes
    ELSE parseMarkdown(md, options, defaultOptions).nodes

\* The values the binding handed to the renderer.
HandedContext ==
    LET a == collectOptions(options, defaultOptions)
    IN  RenderContext(a.opts, a.syntaxAdapter, a.headingAdapter,
                      a.brokenLinkCallback, a.imageURLRewriter, a.linkURLRewriter)

Headings(nodes) == { i \in DOMAIN nodes : nodes[i].value = "Heading" }

\* What rendering the children of node i emits and invokes, in order.
RECURSIVE KidsRendered(_, _, _)
KidsRendered(nodes, kids, c) ==
    IF kids = << >> THEN [ out |-> << >>, calls |-> << >> ]
    ELSE LET a == HTMLNode(nodes, kids[1], c)
             b == KidsRendered(nodes, Tail(kids), c)
         IN  [ out |-> a.out \o b.out, calls |-> a.calls \o b.calls ]

EnterString(nd) == "enter(h" \o ToString(nd.level) \o ")"
ExitString(nd) == "exit(h" \o ToString(nd.level) \o ")"

IsAdapterCall(call) == call \in {"headingAdapter.enter", "headingAdapter.exit"}

\* enter, exit, enter, exit, ... : n pairs.
RECURSIVE EnterExitPairs(_)
EnterExitPairs(n) ==
    IF n = 0 THEN << >>
    ELSE <<"headingAdapter.enter", "headingAdapter.exit">> \o EnterExitPairs(n - 1)

\* C11: in an HTML rendering with a heading adapter, `enter` and `exit` are
\* each called once per heading node, enter before the callbacks of the
\* heading's content and exit after them, and the output for the heading is
\* enter's string, the rendered children, exit's string; the engine emits no
\* heading tag of its own.
C11_HeadingEnterExit ==
    (/\ result.fn \in {"markdownToHTML", "renderHTML"}
     /\ result.st = "ok"
     /\ HeadingAdapterGiven) =>
        LET nodes == HTMLCallAST
            c == HandedContext
        IN  /\ SelectSeq(result.calls, IsAdapterCall)
                   = EnterExitPairs(Cardinality(Headings(nodes)))
            /\ \A i \in Headings(nodes) :
                   LET inner == KidsRendered(nodes, Children(nodes, i), c)
                   IN  /\ Occurs(<<EnterString(nodes[i])>> \o inner.out
                                     \o <<ExitString(nodes[i])>>,
                                 result.out)
                       /\ Occurs(<<"headingAdapter.enter">> \o inner.calls
                                     \o <<"headingAdapter.exit">>,
                                 result.calls)
            /\ \A k \in DOMAIN result.out :
                   result.out[k] \notin {"<h1>", "<h2>", "</h1>", "</h2>"}
            /\ Count("enter(h1)", result.out) + Count("enter(h2)", result.out)
                   = Cardinality(Headings(nodes))
            /\ Count("exit(h1)", result.out) + Count("exit(h2)", result.out)
                   = Cardinality(Headings(nodes))

\* Two headings were rendered through a plain-object adapter; the link inside
\* the first was rewritten between its enter and its exit.
C11_Witness ==
    /\ result.fn = "markdownToHTML"
    /\ result.st = "ok"
    /\ Given(<<"plugins", "render">>, "headingAdapter") = "ha.ok"
    /\ md = << <<"#", "[", "r", "]", "(", "u", ")">>, <<"##", "K">> >>
    /\ result.calls = <<"headingAdapter.enter", "linkURLRewriter",
                        "headingAdapter.exit", "headingAdapter.enter",
                        "headingAdapter.exit">>
    /\ result.out[1] = "enter(h1)"
    /\ result.out[Len(result.out)] = "exit(h2)"

RewriterGiven(k) == Given(<<"extension">>, k) \in RWFunctions \cup RWObjects

HighlighterGiven ==
    Given(<<"plugins", "render">>, "codefenceSyntaxHighlighter")
        \in SHObjects \cup SHInstances

BrokenLinkGiven ==
    Given(<<"parse">>, "brokenLinkCallback") \in BLCFunctions \cup BLCObjects

\* The callbacks the HTML renderer owes a node when it enters it, and when
\* it leaves it, under the hooks the caller configured.
EnterCalls(nd) ==
    CASE nd.value = "Heading" /\ HeadingAdapterGiven -> <<"headingAdapter.enter">>
      [] nd.value = "CodeBlock" /\ HighlighterGiven ->
            <<"highlighter.pre", "highlighter.code", "highlighter.highlight">>
      [] nd.value = "Link" /\ RewriterGiven("linkURLRewriter") ->
            <<"linkURLRewriter">>
      [] nd.value = "Image" /\ RewriterGiven("imageURLRewriter") ->
            <<"imageURLRewriter">>
      [] OTHER -> << >>

ExitCalls(nd) ==
    IF nd.value = "Heading" /\ HeadingAdapterGiven
    THEN <<"headingAdapter.exit">> ELSE << >>

\* The callbacks of the subtrees of the nodes `kids`, in traversal order:
\* a node's enter callbacks, its children from first to last, its exit
\* callbacks, then its next sibling.
RECURSIVE VisitOrder(_, _)
VisitOrder(nodes, kids) ==
    IF kids = << >> THEN << >>
    ELSE EnterCalls(nodes[kids[1]])
             \o VisitOrder(nodes, Children(nodes, kids[1]))
             \o ExitCalls(nodes[kids[1]])
             \o VisitOrder(nodes, Tail(kids))

\* The broken-link callbacks of a parse: one per reference without a
\* definition, from the first block of the text to the last.
RECURSIVE ParseOrder(_, _)
ParseOrder(text, k) ==
    IF k > Len(text) THEN << >>
    ELSE (IF BrokenLinkGiven /\ Malformed(text[k], text) /\ text[k][1] # "<"
          THEN <<"brokenLinkCallback">> ELSE << >>)
         \o ParseOrder(text, k + 1)

\* The callbacks of the last call in document traversal order.
TraversalOrder ==
    (IF result.fn \in OneStep \cup {"parseMarkdown"}
     THEN ParseOrder(md, 1) ELSE << >>)
    \o (IF result.fn \in {"markdownToHTML", "renderHTML"} /\ HTMLCallAST # << >>
        THEN VisitOrder(HTMLCallAST, <<1>>) ELSE << >>)

IsPrefix(s, t) == Len(s) <= Len(t) /\ SubSeq(t, 1, Len(s)) = s

IsAdapterString(t) == t \in {"enter(h1)", "enter(h2)", "exit(h1)", "exit(h2)"}

\* The adapter strings of the headings from node i on, in node order
\* (headings do not nest).
RECURSIVE AdapterStrings(_, _)
AdapterStrings(nodes, i) ==
    IF i > Len(nodes) THEN << >>
    ELSE (IF nodes[i].value = "Heading"
          THEN <<EnterString(nodes[i]), ExitString(nodes[i])>> ELSE << >>)
         \o AdapterStrings(nodes, i + 1)

\* C12: the callbacks a parse or render call invoked are, one after the
\* other, those of the document in traversal order: the list of invocations
\* is the traversal-order list when the call returns and a beginning of it
\* when a callback threw; the strings the heading adapter returned stand in
\* the output in the order of their headings.
C12_CallbacksInTraversalOrder ==
    /\ (result.fn \in OneStep \cup Renderers \cup {"parseMarkdown"}
            /\ result.st = "ok") =>
           result.calls = TraversalOrder
    /\ (result.fn \in OneStep \cup Renderers \cup {"parseMarkdown"}
            /\ result.st = "throw") =>
           IsPrefix(result.calls, TraversalOrder)
    /\ (result.fn \in {"markdownToHTML", "renderHTML"} /\ result.st = "ok"
            /\ HeadingAdapterGiven) =>
           SelectSeq(result.out, IsAdapterString) = AdapterStrings(HTMLCallAST, 1)

\* A one-step HTML conversion with every hook configured resolved a
\* reference at parse time, then rendered a code block through the
\* highlighter and the resolved link through the link rewriter.
C12_Witness ==
    /\ result.fn = "markdownToHTML"
    /\ result.st = "ok"
    /\ md = << <<"~~~rs", "c", "~~~">>, <<"[", "r", "]">> >>
    /\ result.calls = <<"brokenLinkCallback", "highlighter.pre",
                        "highlighter.code", "highlighter.highlight",
                        "linkURLRewriter">>

\* A link rewriter threw inside the second heading: the call invoked the
\* callbacks up to that one and no later one.
C12_ThrowWitness ==
    /\ result.fn = "renderHTML"
    /\ result.st = "throw"
    /\ result.calls = <<"headingAdapter.enter", "headingAdapter.exit",
                        "headingAdapter.enter", "linkURLRewriter">>

\* The nodes of a kind, and those of them with a given URL.
NodesOf(nodes, kind) == { i \in DOMAIN nodes : nodes[i].value = kind }

WithURL(nodes, kind, url) == { i \in NodesOf(nodes, kind) : nodes[i].url = url }

\* The references of a text that no definition resolves, by block.
Occurrences(text) ==
    { k \in DOMAIN text : Malformed(text[k], text) /\ text[k][1] # "<" }

\* How often a configured hook applies: once per occurrence, never without
\* the hook.
Applies(given, occurrences) == IF given THEN Cardinality(occurrences) ELSE 0

\* C13: in one call every configured callback is invoked exactly once per
\* occurrence it applies to.  A parse invokes the broken-link callback once
\* per undefined reference, also when the same label occurs again; an HTML
\* rendering invokes the link rewriter once per link node and the image
\* rewriter once per image node, also when the same URL occurs again, and
\* each method of the highlighter once per code block; each rewritten URL
\* stands in the output once per node that holds it.
C13_OncePerOccurrence ==
    /\ (result.fn \in OneStep \cup {"parseMarkdown"} /\ result.st = "ok") =>
           Count("brokenLinkCallback", result.calls)
               = Applies(BrokenLinkGiven, Occurrences(md))
    /\ (result.fn \in {"markdownToHTML", "renderHTML"} /\ result.st = "ok") =>
           LET nodes == HTMLCallAST
               links == RewriterGiven("linkURLRewriter")
               images == RewriterGiven("imageURLRewriter")
           IN  /\ Count("linkURLRewriter", result.calls)
                      = Applies(links, NodesOf(nodes, "Link"))
               /\ Count("imageURLRewriter", result.calls)
                      = Applies(images, NodesOf(nodes, "Image"))
               /\ \A m \in {"highlighter.pre", "highlighter.code",
                            "highlighter.highlight"} :
                      Count(m, result.calls)
                          = Applies(HighlighterGiven, NodesOf(nodes, "CodeBlock"))
               /\ \A url \in {"u", ResolvedURL} :
                      Count(Rewritten(url), result.out)
                          = Applies(links, WithURL(nodes, "Link", url))
                            + Applies(images, WithURL(nodes, "Image", url))

\* The same URL stood in two links: the link rewriter was invoked twice and
\* the rewritten URL stands in the output twice.
C13_Witness ==
    /\ result.fn = "markdownToHTML"
    /\ result.st = "ok"
    /\ md = << <<"[", "r", "]", "(", "u", ")">>, <<"[", "r", "]", "(", "u", ")">> >>
    /\ Count("linkURLRewriter", result.calls) = 2
    /\ Count(Rewritten("u"), result.out) = 2

(***************************************************************************)
(* C14: the default wrappers of a highlighter plugin object                *)
(***************************************************************************)
\* The highlighter the caller configured, a plain object.
HighlighterObject == Given(<<"plugins", "render">>, "codefenceSyntaxHighlighter")

\* The plugin object has no method m.
Omits(sh, m) ==
    \/ m = "pre" /\ sh \in {"sh.nopre", "sh.bare"}
    \/ m = "code" /\ sh \in {"sh.nocode", "sh.bare"}

\* The render flags the caller asked for.
RenderAsked ==
    One("render", [ githubPreLang |-> Given(<<"render">>, "githubPreLang"),
                    fullInfoString |-> Given(<<"render">>, "fullInfoString") ])

CodeBlocks(nodes) == { i \in DOMAIN nodes : nodes[i].value = "CodeBlock" }

IsInfix(s, t) ==
    \E i \in 0..(Len(t) - Len(s)) : SubSeq(t, i + 1, i + Len(s)) = s

\* ` name="value"` for each attribute in order, the value as it is.
RECURSIVE Verbatim(_)
Verbatim(attrs) ==
    IF attrs = << >> THEN << >>
    ELSE <<" ", attrs[1][1], "=\"">> \o attrs[1][2] \o <<"\"">>
             \o Verbatim(Tail(attrs))

\* The value with a backslash before each `"` and each backslash.
RECURSIVE Backslashed(_)
Backslashed(v) ==
    IF v = << >> THEN << >>
    ELSE (IF Head(v) = "\"" THEN <<"\\\"">>
          ELSE IF Head(v) = "\\" THEN <<"\\\\">>
          ELSE <<Head(v)>>) \o Backslashed(Tail(v))

RECURSIVE Quoted(_)
Quoted(attrs) ==
    IF attrs = << >> THEN << >>
    ELSE <<" ", attrs[1][1], "=\"">> \o Backslashed(attrs[1][2]) \o <<"\"">>
             \o Quoted(Tail(attrs))

\* An attribute value holds a `"` or a backslash.
NeedsBackslash(attrs) ==
    \E a \in DOMAIN attrs : \E k \in DOMAIN attrs[a][2] :
        attrs[a][2][k] \in {"\"", "\\"}

\* The opening tags of code block nd under the highlighter object sh, the
\* attributes of a default wrapper written by Written.
OpeningTags(sh, nd, Written(_)) ==
    (IF Omits(sh, "pre")
     THEN <<"<pre">> \o Written(PreAttrs(nd, RenderAsked)) \o <<">">>
     ELSE <<"pre()">>)
    \o (IF Omits(sh, "code")
        THEN <<"<code">> \o Written(CodeAttrs(nd, RenderAsked)) \o <<">">>
        ELSE <<"code()">>)
    \o <<"highlight(">>

HighlightedHTML ==
    /\ result.fn \in {"markdownToHTML", "renderHTML"}
    /\ result.st = "ok"
    /\ HighlighterObject \in SHObjects

AdapterFor(v, handed) == handed = v \/ handed = "new." \o v

\* The last call is a call of one of the renderers that reached the engine.
RendererCalled ==
    /\ result.fn \in {"markdownToHTML", "markdownToXML", "markdownToCommonMark",
                       "renderHTML", "renderXML", "renderCommonMark"}
    /\ ~collectOptions(options, defaultOptions).threw

\* C15 as stated: a heading adapter or a code-fence highlighter configured
\* in options.plugins.render is handed to the engine by each of the six
\* functions, for HTML, XML and CommonMark, one-step and from an AST.
C15_SameHooksHanded ==
    RendererCalled =>
        /\ HeadingAdapterGiven =>
               AdapterFor(Given(<<"plugins", "render">>, "headingAdapter"),
                          result.ha)
        /\ HighlighterGiven =>
               AdapterFor(Given(<<"plugins", "render">>,
                                "codefenceSyntaxHighlighter"), result.sa)

(***************************************************************************)
(* C16: Options.default() returns a fresh deep copy                        *)
(***************************************************************************)
\* The addresses reachable from address a, a included.
RECURSIVE ReachableFrom(_, _)
ReachableFrom(objects, a) ==
    LET nested == { objects[a][k].ref :
                      k \in { j \in DOMAIN objects[a] : IsRef(objects[a][j]) } }
        RECURSIVE Each(_)
        Each(rest) ==
            IF rest = {} THEN {}
            ELSE LET b == CHOOSE x \in rest : TRUE
                 IN  ReachableFrom(objects, b) \cup Each(rest \ {b})
    IN  {a} \cup Each(nested)

\* defaultOptions and the objects Options.default() returned so far.
Roots == <<DefaultsAddress>> \o heap.returned

\* C16: the object a call of Options.default() returns holds the default
\* values and is a new object; defaultOptions and the returned objects share
\* no object, nested ones included; and defaultOptions holds the default
\* values whatever was written to or deleted from the returned objects.
C16_FreshDefaults ==
    /\ defaultOptions = DefaultOptionsValue
    /\ ValueAt(heap.objects, DefaultsAddress) = DefaultOptionsValue
    /\ heap.fresh # 0 =>
           /\ ValueAt(heap.objects, heap.fresh) = DefaultOptionsValue
           /\ heap.fresh = heap.returned[Len(heap.returned)]
           /\ \A r \in 1..(Len(heap.returned) - 1) :
                  heap.returned[r] # heap.fresh
    /\ \A i, j \in DOMAIN Roots :
           i # j => ReachableFrom(heap.objects, Roots[i])
                        \cap ReachableFrom(heap.objects, Roots[j]) = {}

\* The second call of Options.default() has just returned, after nested
\* writes to the first result and after a group was deleted from it.
C16_Witness ==
    /\ Len(heap.returned) = 2
    /\ heap.fresh = heap.returned[2]
    /\ "parse" \notin DOMAIN heap.objects[heap.returned[1]]
    /\ ValueAt(heap.objects, heap.returned[1]).extension.table = "true"
    /\ ValueAt(heap.objects, heap.returned[1]).plugins.render.headingAdapter
           = "ha.ok"

(***************************************************************************)
(* C17: the node store is a well-formed tree                               *)
(***************************************************************************)
\* The nodes met from node i along next_sibling, at most `left` of them.
RECURSIVE ChainFrom(_, _, _)
ChainFrom(nodes, i, left) ==
    IF i = 0 \/ left = 0 THEN << >>
    ELSE <<i>> \o ChainFrom(nodes, nodes[i].next_sibling, left - 1)

\* Node i reaches the root along `parent` in at most `left` steps.
RECURSIVE ReachesRoot(_, _, _)
ReachesRoot(nodes, i, left) ==
    \/ i = 1
    \/ /\ left > 0
       /\ nodes[i].parent \in DOMAIN nodes
       /\ ReachesRoot(nodes, nodes[i].parent, left - 1)

\* first_child, last_child, previous_sibling and next_sibling of the nodes
\* under p are one doubly-linked list of exactly the nodes whose parent is p.
ChildList(nodes, p) ==
    LET chain == ChainFrom(nodes, nodes[p].first_child, Len(nodes))
        n == Len(chain)
    IN  /\ \A k \in 1..n : chain[k] \in DOMAIN nodes
        /\ \A k, l \in 1..n : k # l => chain[k] # chain[l]
        /\ { chain[k] : k \in 1..n } = { i \in DOMAIN nodes : nodes[i].parent = p }
        /\ nodes[p].last_child = IF n = 0 THEN 0 ELSE chain[n]
        /\ n > 0 => nodes[chain[n]].next_sibling = 0
        /\ \A k \in 1..n :
               nodes[chain[k]].previous_sibling = IF k = 1 THEN 0 ELSE chain[k - 1]

WellFormed(nodes) ==
    \/ nodes = << >>
    \/ /\ nodes[1].value = "Document"
       /\ nodes[1].parent = 0
       /\ nodes[1].previous_sibling = 0
       /\ nodes[1].next_sibling = 0
       /\ \A i \in DOMAIN nodes \ {1} :
              /\ nodes[i].parent \in DOMAIN nodes \ {i}
              /\ ReachesRoot(nodes, i, Len(nodes))
       /\ \A p \in DOMAIN nodes : ChildList(nodes, p)

\* C17: the node store of every AST parseMarkdown returned is empty, or its
\* first node is the Document root, the only node without a parent, with no
\* sibling; every other node has one parent and reaches the root through
\* it; and under every node the child and sibling indices are one
\* doubly-linked list of exactly its children.
C17_WellFormedTree == ast.has => WellFormed(ast.nodes)

\* parseMarkdown returned a tree of three levels under the root, the root
\* with two children.
C17_Witness ==
    /\ ast.has
    /\ ast.nodes # << >>
    /\ Len(Children(ast.nodes, 1)) = 2
    /\ \E i, j, k \in DOMAIN ast.nodes :
           /\ ast.nodes[i].value = "Text" /\ ast.nodes[i].parent = j
           /\ ast.nodes[j].value \in {"Link", "Image"} /\ ast.nodes[j].parent = k
           /\ ast.nodes[k].parent = 1

(***************************************************************************)
(* C18: footnote numbers follow the first references                       *)
(***************************************************************************)
FootnotesAsked == Given(<<"extension">>, "footnotes") = "true"

InlineFootnotesAsked == Given(<<"extension">>, "inlineFootnotes") = "true"

\* The tokens of the blocks of the text that are no footnote definition.
RECURSIVE BodyTokens(_)
BodyTokens(text) ==
    IF text = << >> THEN << >>
    ELSE (IF Defined(text[1][1]) # "" THEN << >> ELSE text[1])
             \o BodyTokens(Tail(text))

LabelsDefined(text) == { Defined(text[n][1]) : n \in DOMAIN text } \ {""}

\* Token j of `tokens` refers to a footnote of the text.
RefersAt(text, tokens, j) ==
    \/ Referred(tokens[j]) \in LabelsDefined(text)
    \/ InlineFootnotesAsked /\ tokens[j] \in InlineNotes

\* The footnote that token j refers to: its label, or `__inline_k` for the
\* k-th inline footnote of the text.
NameAt(tokens, j) ==
    IF tokens[j] \in InlineNotes
    THEN "__inline_"
             \o ToString(Cardinality({ m \in 1..j : tokens[m] \in InlineNotes }))
    ELSE Referred(tokens[j])

\* The number of the footnote that token j refers to when numbers go by
\* first reference: one more than the footnotes referred to before the
\* first reference to it.
NumberAt(text, tokens, j) ==
    LET first == CHOOSE m \in 1..j :
                     /\ RefersAt(text, tokens, m)
                     /\ NameAt(tokens, m) = NameAt(tokens, j)
                     /\ \A l \in 1..(m - 1) :
                            RefersAt(text, tokens, l)
                                => NameAt(tokens, l) # NameAt(tokens, j)
    IN  1 + Cardinality({ NameAt(tokens, l) :
                            l \in { k \in 1..(first - 1) : RefersAt(text, tokens, k) } })

\* The references of the text in order, each with the number it is owed.
RECURSIVE ReferencesOwed(_, _, _)
ReferencesOwed(text, tokens, j) ==
    IF j > Len(tokens) THEN << >>
    ELSE (IF RefersAt(text, tokens, j)
          THEN << <<NameAt(tokens, j), ToString(NumberAt(text, tokens, j))>> >>
          ELSE << >>) \o ReferencesOwed(text, tokens, j + 1)

NoteNamesOf(text) ==
    FootnoteLabels
        \cup { "__inline_" \o ToString(k) : k \in 1..Len(BodyTokens(text)) }

ReferenceOpening(name) ==
    "<sup class=\"footnote-ref\"><a href=\"#fn-" \o name \o "\" data-footnote-ref>"

ItemOpening(name) == "<li id=\"fn-" \o name \o "\">"

\* The reference markers of the output in order, each with its number.
RECURSIVE MarkersIn(_, _, _)
MarkersIn(out, names, i) ==
    IF i > Len(out) THEN << >>
    ELSE (IF \E name \in names : out[i] = ReferenceOpening(name)
          THEN << <<CHOOSE name \in names : out[i] = ReferenceOpening(name),
                    out[i + 1]>> >>
          ELSE << >>) \o MarkersIn(out, names, i + 1)

\* The footnotes of the list at the end of the output, in order.
RECURSIVE ItemsIn(_, _, _)
ItemsIn(out, names, i) ==
    IF i > Len(out) THEN << >>
    ELSE (IF \E name \in names : out[i] = ItemOpening(name)
          THEN <<CHOOSE name \in names : out[i] = ItemOpening(name)>>
          ELSE << >>) \o ItemsIn(out, names, i + 1)

\* The place of name in the list of footnotes, 0 when it is not there.
PlaceIn(items, name) ==
    IF \E n \in DOMAIN items : items[n] = name
    THEN CHOOSE n \in DOMAIN items : items[n] = name ELSE 0

FootnotesRendered ==
    /\ result.fn \in {"markdownToHTML", "renderHTML"}
    /\ result.st = "ok"
    /\ FootnotesAsked

\* C18: with footnotes enabled, each reference in the HTML output carries
\* the number of its footnote by first reference (the footnote referred to
\* first is 1) whatever the order of the definitions, an inline footnote
\* takes the next number of the same sequence, and the list of footnotes is
\* in the order of the numbers.
C18_FirstReferenceOrder ==
    FootnotesRendered =>
        LET markers == MarkersIn(result.out, NoteNamesOf(md), 1)
            items == ItemsIn(result.out, NoteNamesOf(md), 1)
        IN  /\ markers = ReferencesOwed(md, BodyTokens(md), 1)
            /\ \A m \in DOMAIN markers :
                   /\ PlaceIn(items, markers[m][1]) # 0
                   /\ markers[m][2] = ToString(PlaceIn(items, markers[m][1]))
            /\ \A n, k \in DOMAIN items : n # k => items[n] # items[k]
            /\ \A n \in DOMAIN items : \E m \in DOMAIN markers :
                   markers[m][1] = items[n]

\* An HTML conversion of a text that refers to x, to an inline footnote and
\* to y, in this order, with y defined before x: x is 1, the inline footnote
\* 2 and y 3.
C18_Witness ==
    /\ FootnotesRendered
    /\ InlineFootnotesAsked
    /\ md = << <<"[^x]", "^[n]", "[^y]">>, <<"[^y]:", "Y">>, <<"[^x]:", "X">> >>
    /\ MarkersIn(result.out, NoteNamesOf(md), 1)
           = << <<"x", "1">>, <<"__inline_1", "2">>, <<"y", "3">> >>
    /\ ItemsIn(result.out, NoteNamesOf(md), 1) = <<"x", "__inline_1", "y">>

(***************************************************************************)
(* C19: interleaved calls of two callers                                   *)
(***************************************************************************)
\* The AST the caller holds when it alone calls parseMarkdown.
ParsedAlone == parseMarkdown(md, options, DefaultOptionsValue)

\* What the last call returns when no other call was made before it.
ReturnedAlone ==
    CASE result.fn = "markdownToHTML" ->
            markdownToHTML(md, options, DefaultOptionsValue)
      [] result.fn = "markdownToXML" ->
            markdownToXML(md, options, DefaultOptionsValue)
      [] result.fn = "markdownToCommonMark" ->
            markdownToCommonMark(md, options, DefaultOptionsValue)
      [] result.fn = "markdownToCommonMark.again" ->
            markdownToCommonMark(result.arg, options, DefaultOptionsValue)
      [] result.fn = "renderHTML" ->
            renderHTML(ParsedAlone.nodes, options, DefaultOptionsValue)
      [] result.fn = "renderXML" ->
            renderXML(ParsedAlone.nodes, options, DefaultOptionsValue)
      [] result.fn = "renderCommonMark" ->
            renderCommonMark(ParsedAlone.nodes, options, DefaultOptionsValue)
      [] result.fn = "mod.markdownToHTML" -> ModMarkdownToHTML(md, options)
      [] OTHER -> [ st |-> ParsedAlone.st, out |-> << >> ]

WidthAsked == ToNumber(Given(<<"render">>, "width"))

\* The lines of a block of output.
RECURSIVE LinesOf(_, _)
LinesOf(s, line) ==
    IF s = << >> THEN <<line>>
    ELSE IF s[1] = "\n" THEN <<line>> \o LinesOf(Tail(s), << >>)
    ELSE LinesOf(Tail(s), Append(line, s[1]))

\* The block with every line break made a space.
Unbroken(s) == [ k \in DOMAIN s |-> IF s[k] = "\n" THEN " " ELSE s[k] ]

\* A line that holds one word.
OneWord(line) == \A k \in DOMAIN line : line[k] # " "

\* What the call returns without a wrap column.
Unwrapped ==
    markdownToCommonMark(result.arg, [ g \in DOMAIN options \ {"render"} |-> options[g] ],
                         DefaultOptionsValue).out

WrappedCall ==
    /\ result.fn \in {"markdownToCommonMark", "markdownToCommonMark.again"}
    /\ result.st = "ok"
    /\ WidthAsked > 0

\* No word is split: the output is the output without a wrap column, some
\* of its spaces made line breaks.
NoWordSplit ==
    /\ Len(result.out) = Len(Unwrapped)
    /\ \A b \in DOMAIN result.out : Unbroken(result.out[b]) = Unbroken(Unwrapped[b])

\* C20 as stated: under render.width = W > 0 every line of the output of
\* markdownToCommonMark has at most W characters and no word is split.
C20_EveryLineWithinWidth ==
    WrappedCall =>
        /\ \A b \in DOMAIN result.out :
               \A l \in DOMAIN LinesOf(result.out[b], << >>) :
                   Chars(LinesOf(result.out[b], << >>)[l]) <= WidthAsked
        /\ NoWordSplit

\* C20, amended: under render.width = W > 0 no word is split, and every
\* line of the output has at most W characters or holds a single word that
\* is longer than W.
C20_WrappedAtWords ==
    WrappedCall =>
        /\ \A b \in DOMAIN result.out :
               \A l \in DOMAIN LinesOf(result.out[b], << >>) :
                   \/ Chars(LinesOf(result.out[b], << >>)[l]) <= WidthAsked
                   \/ OneWord(LinesOf(result.out[b], << >>)[l])
        /\ NoWordSplit

\* A paragraph with the word `abcdefgh` converted under width 6: the word
\* is whole, on a line of its own.
C20_Witness ==
    /\ WrappedCall
    /\ WidthAsked = 6
    /\ md = << <<"aa", " ", "bbb", " ", "c">>,
               <<"a", " ", "abcd", "efgh", " ", "b">> >>
    /\ result.out = << <<"aa", " ", "bbb", "\n", "c">>,
                       <<"a", "\n", "abcd", "efgh", "\n", "b">> >>

(***************************************************************************)
(* C21: a URL rewriter changes the destination and nothing else            *)
(***************************************************************************)
\* The last call returned HTML.
HTMLReturned ==
    /\ result.fn \in {"markdownToHTML", "renderHTML"}
    /\ result.st = "ok"

\* What the engine emits for the same call when it is handed no rewriter.
WithoutRewriters ==
    IF result.fn = "renderHTML"
    THEN format_html(ast.nodes, HandedContext.opts, HandedContext.sa,
                     HandedContext.ha, HandedContext.blc, "null", "null").out
    ELSE markdown_to_html(md, HandedContext.opts, HandedContext.sa,
                          HandedContext.ha, HandedContext.blc, "null", "null").out

\* Token k of the output is the destination of a link, of an image.
IsDestination(out, k, opening) == k > 1 /\ out[k - 1] = opening

\* C21: with a link (image) URL rewriter configured, the HTML output is the
\* output without the rewriter in which the destination of every link
\* (image), and nothing else, is what the rewriter returns for the
\* destination that would have been emitted.
C21_RewriterChangesDestinationOnly ==
    HTMLReturned /\ (RewriterGiven("linkURLRewriter")
                        \/ RewriterGiven("imageURLRewriter")) =>
        /\ Len(result.out) = Len(WithoutRewriters)
        /\ \A k \in DOMAIN result.out :
              result.out[k] =
                  IF /\ IsDestination(WithoutRewriters, k, "<a href=\"")
                     /\ RewriterGiven("linkURLRewriter")
                  THEN Rewritten(WithoutRewriters[k])
                  ELSE IF /\ IsDestination(WithoutRewriters, k, "<img src=\"")
                          /\ RewriterGiven("imageURLRewriter")
                  THEN Rewritten(WithoutRewriters[k])
                  ELSE WithoutRewriters[k]

\* A link resolved by the broken-link callback and an image, converted
\* with both rewriters: the resolved URL is rewritten, the text and the alt
\* text stand.
C21_Witness ==
    /\ HTMLReturned
    /\ md = << <<"[", "r", "]">>, <<"!", "[", "r", "]", "(", "u", ")">> >>
    /\ RewriterGiven("linkURLRewriter")
    /\ RewriterGiven("imageURLRewriter")
    /\ result.out = <<"<p>", "<a href=\"", "rw(U)", "\"", " title=\"", "T", "\"",
                      ">", "r", "</a>", "</p>", "\n",
                      "<p>", "<img src=\"", "rw(u)", "\" alt=\"", "r", "\"",
                      " />", "</p>", "\n">>

(***************************************************************************)
(* C22: the built-in heading anchor                                        *)
(***************************************************************************)
\* The headerIDs prefix of the call: what the caller's options hold, and for
\* the markdownToHTML of mod.ts, which takes no plugin and fills in the
\* prefix itself, what it hands to the engine.
HeaderPrefix ==
    IF result.fn = "mod.markdownToHTML" THEN result.config.extension.headerIDs
    ELSE Given(<<"extension">>, "headerIDs")

PrefixConfigured == HeaderPrefix \notin {"absent", "null", "undefined"}

HeadingPluginSupplied == result.fn # "mod.markdownToHTML" /\ HeadingAdapterGiven

\* The level and the text of the heading a block of source is, level 0 for
\* any other block.
HeadingLevel(b) ==
    CASE b[1] = "#" -> 1
      [] b[1] = "##" -> 2
      [] b[Len(b)] = "---" -> 2
      [] OTHER -> 0

\* The slug of the text of a heading block: its words in lower case, joined
\* by hyphens.
SlugOfHeading(b) ==
    CASE b = <<"#", "T">> -> "t"
      [] b = <<"##", "K", "!", "a">> -> "k-a"
      [] b = <<"K", "---">> -> "k"
      [] b = <<"#", "[", "r", "]", "(", "u", ")">> -> "r"
      [] OTHER -> ""

\* An anchor with the given id and href.
AnchorWith(id, href) ==
    "<a href=\"" \o href \o "\" aria-hidden=\"true\" class=\"anchor\" id=\""
        \o id \o "\"></a>"

\* The token opens or closes a heading: a tag of the engine, a string of the
\* adapter, or an anchor with any id and href.
IsHeadingMark(t) ==
    \/ t \in {"<h1>", "<h2>", "enter(h1)", "enter(h2)", "exit(h1)", "exit(h2)"}
    \/ \E p \in {"", "p-", "#"}, q \in {"", "p-", "#"},
          s \in {"t", "k-a", "k", "r", "T", "K", "K-a", "k-!-a", "K-!-a"} :
              t = AnchorWith(p \o s, q \o s)

\* What opens and closes the headings of the text, in order.
RECURSIVE HeadingMarks(_)
HeadingMarks(text) ==
    IF text = << >> THEN << >>
    ELSE LET h == "h" \o ToString(HeadingLevel(text[1]))
             slug == SlugOfHeading(text[1])
         IN  (CASE HeadingLevel(text[1]) = 0 -> << >>
                [] HeadingLevel(text[1]) # 0 /\ HeadingPluginSupplied ->
                      <<"enter(" \o h \o ")", "exit(" \o h \o ")">>
                [] HeadingLevel(text[1]) # 0 /\ ~HeadingPluginSupplied
                       /\ PrefixConfigured ->
                      <<"<" \o h \o ">", AnchorWith(HeaderPrefix \o slug, "#" \o slug)>>
                [] OTHER -> <<"<" \o h \o ">">>)
             \o HeadingMarks(Tail(text))

C22_PluginWitness ==
    /\ result.fn = "renderHTML"
    /\ result.st = "ok"
    /\ md = << <<"##", "K", "!", "a">>, <<"K", "---">> >>
    /\ HeaderPrefix = "p-"
    /\ HeadingPluginSupplied
    /\ SelectSeq(result.out, IsHeadingMark)
           = <<"enter(h2)", "exit(h2)", "enter(h2)", "exit(h2)">>

(***************************************************************************)
(* C23: the tight flag of a list                                           *)
(***************************************************************************)
\* The blocks of the text that open a list, in order.
ListsIn(text) == SelectSeq(text, LAMBDA b : b[1] = "-")

\* A blank line lies between two items of the list block: a blank line
\* directly before a line that opens an item.
BlankBetweenItems(b) ==
    \E j \in 3..Len(b) : b[j] = "-" /\ b[j - 1] = "\n" /\ b[j - 2] = "\n"

\* The List nodes of the store, in document order.
RECURSIVE ListNodesFrom(_, _)
ListNodesFrom(nodes, i) ==
    IF i > Len(nodes) THEN << >>
    ELSE (IF nodes[i].value = "List" THEN <<nodes[i]>> ELSE << >>)
             \o ListNodesFrom(nodes, i + 1)

\* The opening tag of a list in XML output, by its tight flag.
ListTag(tight) ==
    "<list type=\"bullet\" tight=\"" \o (IF tight THEN "true" ELSE "false")
        \o "\">"

\* The flags of the store are those of the text.
FlagsOf(nodes, text) ==
    /\ Len(ListNodesFrom(nodes, 1)) = Len(ListsIn(text))
    /\ \A k \in DOMAIN ListsIn(text) :
           ListNodesFrom(nodes, 1)[k].tight = ~BlankBetweenItems(ListsIn(text)[k])

\* C23: the tight flag of every list of the AST is true exactly when no
\* blank line lies between two items of the list in the source (blank
\* lines after the last item do not count); it is what parseMarkdown
\* returned and stays so through every rendering of the AST, and the XML
\* output shows the same flag.
C23_TightIffNoBlankBetweenItems ==
    /\ ast.has => FlagsOf(ast.nodes, md)
    /\ (result.fn \in {"renderXML", "markdownToXML"} /\ result.st = "ok") =>
           SelectSeq(result.out, LAMBDA t : t \in {ListTag(TRUE), ListTag(FALSE)})
               = [ k \in DOMAIN ListsIn(md) |->
                     ListTag(~BlankBetweenItems(ListsIn(md)[k])) ]

\* A list with blank lines after its last item only and a list with a blank
\* line between its second and third item, parsed and then rendered: the
\* first is tight, the second is not.
C23_Witness ==
    /\ ast.has
    /\ result.fn = "renderXML"
    /\ rendered["renderHTML"].has
    /\ md = << <<"-", "a", "\n", "-", "b", "\n", "\n">>,
               <<"-", "a", "\n", "-", "b", "\n", "\n", "-", "c">> >>
    /\ ListNodesFrom(ast.nodes, 1)[1].tight
    /\ ~ListNodesFrom(ast.nodes, 1)[2].tight
    /\ SelectSeq(result.out, LAMBDA t : t \in {ListTag(TRUE), ListTag(FALSE)})
           = <<ListTag(TRUE), ListTag(FALSE)>>

(***************************************************************************)
(* C25: task list items                                                    *)
(***************************************************************************)
TasklistAsked == Given(<<"extension">>, "tasklist") = "true"

\* The markdownToHTML of mod.ts has no relaxedTasklistMatching in its
\* options (mod.ts, lines 176-215 and 323-341).
RelaxedAsked ==
    /\ Given(<<"parse">>, "relaxedTasklistMatching") = "true"
    /\ result.fn # "mod.markdownToHTML"

CheckedBox == "<input type=\"checkbox\" checked=\"\" disabled=\"\" />"

UncheckedBox == "<input type=\"checkbox\" disabled=\"\" />"

Boxes == {"[ ]", "[x]", "[X]", "[-]"}

\* What opens the item whose content begins with the token m: the item tag,
\* then a checkbox, or the marker as literal text, or nothing of these.
ItemOpens(m) ==
    <<"<li>">>
        \o (CASE m \notin Boxes -> << >>
              [] m \in Boxes /\ ~TasklistAsked -> <<m>>
              [] m = "[ ]" /\ TasklistAsked -> <<UncheckedBox>>
              [] m \in {"[x]", "[X]"} /\ TasklistAsked -> <<CheckedBox>>
              [] m = "[-]" /\ TasklistAsked /\ RelaxedAsked -> <<CheckedBox>>
              [] OTHER -> <<m>>)

\* The same for the items of a block of source, from token j on, and for the
\* blocks of a text.
RECURSIVE ItemsOpen(_, _)
ItemsOpen(b, j) ==
    IF j >= Len(b) THEN << >>
    ELSE (IF b[j] = "-" /\ (j = 1 \/ b[j - 1] = "\n")
          THEN ItemOpens(b[j + 1]) ELSE << >>)
             \o ItemsOpen(b, j + 1)

RECURSIVE TextItemsOpen(_)
TextItemsOpen(text) ==
    IF text = << >> THEN << >>
    ELSE ItemsOpen(text[1], 1) \o TextItemsOpen(Tail(text))

IsItemOpening(t) == t \in {"<li>", CheckedBox, UncheckedBox} \cup Boxes

C25_StrictWitness ==
    /\ result.fn = "markdownToHTML"
    /\ result.st = "ok"
    /\ TasklistAsked
    /\ ~RelaxedAsked
    /\ md = << <<"-", "[-]", "a">> >>
    /\ result.out = <<"<ul>", "\n", "<li>", "[-]", "a", "</li>", "\n", "</ul>", "\n">>

(***************************************************************************)
(* Conversions of emphasis                                                 *)
(***************************************************************************)
\* Most blocks in a text of emphasis.
MaxEmphBlocks == 2

\* `*a **b** c*`, the same without spaces, the reverse nesting, a run of
\* three stars on both sides, a closer that is shorter than its opener,
\* plain emphasis and a paragraph without emphasis.
EmphBlocks ==
    { <<"*", "a", " ", "**", "b", "**", " ", "c", "*">>,
      <<"*", "a", "**", "b", "**", "c", "*">>,
      <<"**", "a", " ", "*", "b", "*", " ", "c", "**">>,
      <<"***", "a", "***">>,
      <<"*", "a", " ", "**", "b", "*">>,
      <<"*", "a", "*">>,
      <<"a", "!">> }

EmphOptions == { Empty, One("render", [ escape |-> "true" ]) }

InitEmph ==
    /\ heap = NoDefaults
    /\ other = NoOther
    /\ defaultOptions = DefaultOptionsValue
    /\ md \in TextsOver(EmphBlocks, MaxEmphBlocks)
    /\ options \in EmphOptions
    /\ ast = NoAST
    /\ result = NoCall
    /\ rendered = NeverRendered

EmphSpec == InitEmph /\ [][Next]_vars

\* Block b is a `*` span that holds a `**` span: its only runs of stars
\* are an opening `*`, an opening `**`, a closing `**` and a closing `*` in
\* this order, no whitespace follows an opening run and none precedes a
\* closing run, and no span is empty.
StarsNested(b) ==
    \E i, j, k, l \in DOMAIN b :
        /\ i + 1 < j /\ j + 1 < k /\ k + 1 < l
        /\ b[i] = "*" /\ b[j] = "**" /\ b[k] = "**" /\ b[l] = "*"
        /\ \A m \in DOMAIN b \ {i, j, k, l} : b[m] \notin {"*", "**", "***", "\\"}
        /\ b[i + 1] # " " /\ b[j + 1] # " "
        /\ b[k - 1] # " " /\ b[l - 1] # " "

\* The nodes above node i of the tree, its parent first.
RECURSIVE Above(_, _)
Above(nodes, i) ==
    IF nodes[i].parent = 0 THEN { }
    ELSE {nodes[i].parent} \cup Above(nodes, nodes[i].parent)

\* The nodes of the k-th block of the document.
NodesOfBlock(nodes, k) ==
    { i \in DOMAIN nodes : Children(nodes, 1)[k] \in Above(nodes, i) }

\* C24: when a `**`-delimited span lies inside a `*`-delimited span, as in
\* `*a **b** c*`, the parsed tree holds a Strong node whose parent is an
\* Emph node, and no Emph node below a Strong node.
C24_StrongInsideEmph ==
    ast.has =>
        \A k \in DOMAIN md :
            StarsNested(md[k]) =>
                /\ \E i \in NodesOfBlock(ast.nodes, k) :
                       /\ ast.nodes[i].value = "Strong"
                       /\ ast.nodes[ast.nodes[i].parent].value = "Emph"
                /\ \A i \in NodesOfBlock(ast.nodes, k) :
                       ast.nodes[i].value = "Emph" =>
                           \A a \in Above(ast.nodes, i) :
                               ast.nodes[a].value # "Strong"

\* `*a **b** c*` was parsed, and rendered as <em>a <strong>b</strong> c</em>.
C24_Witness ==
    /\ result.fn = "renderHTML"
    /\ result.st = "ok"
    /\ md = << <<"*", "a", " ", "**", "b", "**", " ", "c", "*">> >>
    /\ result.out = <<"<p>", "<em>", "a", " ", "<strong>", "b", "</strong>",
                      " ", "c", "</em>", "</p>", "\n">>

\* The reverse nesting `**a *b* c**` was parsed: an Emph node below a
\* Strong node.
C24_ReverseWitness ==
    /\ ast.has
    /\ md = << <<"**", "a", " ", "*", "b", "*", " ", "c", "**">> >>
    /\ \E i \in DOMAIN ast.nodes :
           /\ ast.nodes[i].value = "Emph"
           /\ ast.nodes[ast.nodes[i].parent].value = "Strong"

(***************************************************************************)
(* collectOptions on options of every shape                                *)
(***************************************************************************)
\* Most blocks in a text converted under these options.
MaxOptionBlocks == 1

OptionBlocks ==
    { <<"#", "T">>, <<"~~~rs", "c", "~~~">>, <<"[", "r", "]">> }

\* Options objects with fields set to undefined and to null, callbacks
\* that are falsy, of the wrong type, functions and objects, and plugins
\* of the wrong and of the right shape.
OptionValues ==
    { Empty,
      One("extension", [ tasklist |-> "undefined" ]),
      One("extension", [ tasklist |-> "true", headerIDs |-> "undefined" ]),
      One("parse", [ smart |-> "undefined" ]),
      One("render", [ width |-> "undefined", unsafe |-> "true" ]),
      One("render", [ hardbreaks |-> "null" ]) }
    \cup { One("parse", [ brokenLinkCallback |-> v ]) :
             v \in {"undefined", "null", "false", "0", "", "42", "obj.bad",
                    "fn.ok", "obj.ok"} }
    \cup { One("extension", [ imageURLRewriter |-> v ]) :
             v \in {"false", "obj.bad", "fn.rw", "obj.rw"} }
    \cup { One("extension", [ linkURLRewriter |-> v ]) :
             v \in {"", "42", "obj.rwthrow"} }
    \cup { One("plugins", One("render", [ codefenceSyntaxHighlighter |-> v ])) :
             v \in {"sh.badpre", "sh.badcode", "sh.nopre", "obj.bad", "42",
                    "false", "SyntaxHighlighterAdapter.ok"} }
    \cup { One("plugins", One("render", [ headingAdapter |-> v ])) :
             v \in {"ha.noexit", "obj.bad", "42", "ha.ok", "undefined"} }

InitOptions ==
    /\ heap = NoDefaults
    /\ other = NoOther
    /\ defaultOptions = DefaultOptionsValue
    /\ md \in TextsOver(OptionBlocks, MaxOptionBlocks)
    /\ options \in OptionValues
    /\ ast = NoAST
    /\ result = NoCall
    /\ rendered = NeverRendered

\* The record of a call of collectOptions: the options object it returns,
\* the three callbacks in the order of the tuple, and the two adapters.
Collected(a) ==
    [ fn |-> "collectOptions", arg |-> << >>,
      config |-> IF a.threw THEN Empty ELSE a.opts,
      st |-> IF a.threw THEN "throw" ELSE "ok",
      out |-> IF a.threw THEN << >>
              ELSE <<a.brokenLinkCallback, a.imageURLRewriter, a.linkURLRewriter>>,
      calls |-> << >>,
      sa |-> IF a.threw THEN "none" ELSE a.syntaxAdapter,
      ha |-> IF a.threw THEN "none" ELSE a.headingAdapter ]

\* `collectOptions(options)`
CollectOptions ==
    /\ result' = Collected(collectOptions(options, defaultOptions))
    /\ options' = CallerOptionsAfter("collectOptions", options)
    /\ defaultOptions' = DefaultOptionsAfter(options, defaultOptions)
    /\ UNCHANGED <<heap, other, md, ast, rendered>>

NextOptions ==
    \/ Next
    \/ CollectOptions

OptionsSpec == InitOptions /\ [][NextOptions]_vars

\* collectOptions returned.
CollectOptionsReturned == result.fn = "collectOptions" /\ result.st = "ok"

\* The caller's options object has field k in group g, whatever it holds.
Supplied(g, k) == g \in DOMAIN options /\ k \in DOMAIN options[g]

\* C26: the options object collectOptions returns has, for every field of
\* defaultOptions in the extension, parse and render groups, a value that
\* is not undefined: the caller's value for a field the caller supplies,
\* the default for every other field.
C26_FullyPopulated ==
    CollectOptionsReturned =>
        \A g \in {"extension", "parse", "render"} :
            /\ g \in DOMAIN result.config
            /\ \A k \in DOMAIN DefaultOptionsValue[g] :
                   /\ k \in DOMAIN result.config[g]
                   /\ result.config[g][k] # "undefined"
                   /\ result.config[g][k]
                          = IF Supplied(g, k) THEN options[g][k]
                            ELSE DefaultOptionsValue[g][k]

\* The caller set no field to undefined.
NoFieldUndefined ==
    \A g \in DOMAIN options \ {"plugins"} :
        \A k \in DOMAIN options[g] : options[g][k] # "undefined"

\* C26 for callers that set no field to undefined.
C26_PopulatedUnlessUndefined ==
    NoFieldUndefined => C26_FullyPopulated

\* collectOptions returned for options whose tasklist is undefined.
C26_Witness ==
    /\ CollectOptionsReturned
    /\ Supplied("extension", "tasklist")
    /\ options.extension.tasklist = "undefined"
    /\ result.config.extension.tasklist = "undefined"
    /\ DefaultOptionsValue.extension.tasklist = "false"

\* The three callback slots of the tuple: where the caller configures each
\* and the method an object must have.
Slots ==
    << [ g |-> "parse", k |-> "brokenLinkCallback", method |-> "resolve" ],
       [ g |-> "extension", k |-> "imageURLRewriter", method |-> "toHTML" ],
       [ g |-> "extension", k |-> "linkURLRewriter", method |-> "toHTML" ] >>

\* What the caller configured for slot s; null when the caller left it out.
SlotGiven(s) ==
    IF Supplied(Slots[s].g, Slots[s].k) THEN options[Slots[s].g][Slots[s].k]
    ELSE "null"

HasMethod(v, method) ==
    TypeOf(v) = "object" /\ v # "null" /\ TypeOfMethod(v, method) = "function"

\* Slot s of the returned tuple holds what the claim says for the value v
\* the caller configured.
SlotAsClaimed(s, v) ==
    /\ result.out[s] = "null" \/ TypeOf(result.out[s]) = "function"
    /\ TypeOf(v) = "function" => result.out[s] = v
    /\ HasMethod(v, Slots[s].method) =>
           /\ TypeOf(result.out[s]) = "function"
           /\ Behaviour(result.out[s]) = Behaviour(v)
    /\ (TypeOf(v) # "function" /\ ~HasMethod(v, Slots[s].method)) =>
           result.out[s] = "null"

\* C27: each of the three callback slots collectOptions returns is null or
\* a function: a function passes through unchanged, an object with the
\* method becomes a function that calls the method, and every other value
\* becomes null.
C27_SlotsNullOrFunction ==
    CollectOptionsReturned =>
        \A s \in DOMAIN Slots : SlotAsClaimed(s, SlotGiven(s))

\* C27 for the values that are truthy, null or undefined; a value that is
\* falsy and neither null nor undefined (false, 0, the empty string) is
\* returned as it is.
C27_TruthyNormalised ==
    CollectOptionsReturned =>
        \A s \in DOMAIN Slots :
            IF Truthy(SlotGiven(s)) \/ SlotGiven(s) \in {"null", "undefined"}
            THEN SlotAsClaimed(s, SlotGiven(s))
            ELSE result.out[s] = SlotGiven(s)

\* collectOptions returned `false` as the broken-link callback.
C27_Witness ==
    /\ CollectOptionsReturned
    /\ SlotGiven(1) = "false"
    /\ result.out[1] = "false"

\* What the caller configured as plugin k; null when the caller left it out.
PluginGiven(k) ==
    IF /\ "plugins" \in DOMAIN options
       /\ "render" \in DOMAIN options.plugins
       /\ k \in DOMAIN options.plugins.render
    THEN options.plugins.render[k] ELSE "null"

\* The highlighter has a wrapper m that is neither a function nor missing.
WrapperNoFunction(v) ==
    \E m \in {"pre", "code"} : TypeOfMethod(v, m) \notin {"function", "undefined"}

\* A highlighter of the wrong shape: no instance of the wasm class, and
\* without a `highlight` function or with a `pre` or `code` that is no
\* function.
WrongHighlighter(v) ==
    /\ Truthy(v)
    /\ v \notin SHInstances
    /\ ~HasMethod(v, "highlight") \/ WrapperNoFunction(v)

\* A heading adapter of the wrong shape: no instance of the wasm class,
\* and without `enter` or without `exit`.
WrongHeadingAdapter(v) ==
    /\ Truthy(v)
    /\ v \notin HAInstances
    /\ ~(HasMethod(v, "enter") /\ HasMethod(v, "exit"))

\* A callback of the wrong shape for slot s.
WrongCallback(s, v) ==
    /\ v \notin {"null", "undefined"}
    /\ TypeOf(v) # "function"
    /\ ~HasMethod(v, Slots[s].method)

\* The values of the wrong shape are treated as absent: the engine is
\* handed no adapter for them and no function to call.
WrongShapesAbsent ==
    /\ WrongHighlighter(PluginGiven("codefenceSyntaxHighlighter")) =>
           result.sa = "null"
    /\ WrongHeadingAdapter(PluginGiven("headingAdapter")) => result.ha = "null"
    /\ \A s \in DOMAIN Slots :
           WrongCallback(s, SlotGiven(s)) => TypeOf(result.out[s]) # "function"

\* C28: collectOptions returns normally for every options value, and a
\* plugin or callback of the wrong shape is treated as absent.
C28_NeverThrows ==
    result.fn = "collectOptions" =>
        /\ result.st = "ok"
        /\ WrongShapesAbsent

\* C28 apart from the wrappers: collectOptions throws for a highlighter
\* with a `highlight` function whose `pre` or `code` is no function, and
\* for nothing else; every other value of the wrong shape is treated as
\* absent.
C28_ThrowsForWrapperOnly ==
    result.fn = "collectOptions" =>
        IF /\ HasMethod(PluginGiven("codefenceSyntaxHighlighter"), "highlight")
           /\ WrapperNoFunction(PluginGiven("codefenceSyntaxHighlighter"))
        THEN result.st = "throw"
        ELSE result.st = "ok" /\ WrongShapesAbsent

\* collectOptions threw for a highlighter whose `pre` is a string.
C28_Witness ==
    /\ result.fn = "collectOptions"
    /\ PluginGiven("codefenceSyntaxHighlighter") = "sh.badpre"
    /\ result.st = "throw"

HoldsQuote(t) == t \in {"\"", "\\\""}

\* A value as HTML reads it: `&quot;` is a `"`.
ReadValue(v) == [ k \in 1..Len(v) |-> IF v[k] = "&quot;" THEN "\"" ELSE v[k] ]

\* The attributes an HTML parser reads from the tokens that follow a tag
\* name, up to `>`: ` name="` opens a value that lasts to the first `"`;
\* any other token is an attribute of its own without value.
RECURSIVE ReadAttrs(_)
ReadAttrs(t) ==
    IF t = << >> \/ t[1] = ">" THEN << >>
    ELSE IF Len(t) >= 3 /\ t[1] = " " /\ t[3] = "=\""
    THEN LET ends(j) ==
                 << <<t[2], ReadValue(SubSeq(t, 4, j - 1))
                                \o (IF j <= Len(t) /\ t[j] = "\\\""
                                    THEN <<"\\">> ELSE << >>)>> >>
                     \o ReadAttrs(SubSeq(t, j + 1, Len(t)))
         IN  IF \E j \in 4..Len(t) : HoldsQuote(t[j])
             THEN ends(CHOOSE j \in 4..Len(t) :
                           /\ HoldsQuote(t[j])
                           /\ \A k \in 4..(j - 1) : ~HoldsQuote(t[k]))
             ELSE ends(Len(t) + 1)
    ELSE << <<t[1], << >> >> >> \o ReadAttrs(Tail(t))

\* The attribute map the engine passes to wrapper m for code block nd.
WrapperAttrs(m, nd) ==
    IF m = "pre" THEN PreAttrs(nd, RenderAsked) ELSE CodeAttrs(nd, RenderAsked)

\* The output holds an opening tag of the default wrapper m from which an
\* HTML parser reads exactly the attributes attrs.
ReadsBack(m, attrs) ==
    \E p \in DOMAIN result.out :
        /\ result.out[p] = "<" \o m
        /\ ReadAttrs(SubSeq(result.out, p + 1, Len(result.out))) = attrs

\* C30: the opening tag of a default `pre`/`code` wrapper is well-formed
\* for every attribute map: an HTML parser reads from it the attributes of
\* the map and nothing else, so no value ends its attribute early.
C30_WellFormedOpeningTag ==
    HighlightedHTML =>
        \A i \in CodeBlocks(HTMLCallAST) :
            \A m \in {"pre", "code"} :
                Omits(HighlighterObject, m) =>
                    ReadsBack(m, WrapperAttrs(m, HTMLCallAST[i]))

\* C30 for attribute maps without a `"` or a backslash in a value.
C30_WellFormedWithoutQuote ==
    HighlightedHTML =>
        \A i \in CodeBlocks(HTMLCallAST) :
            \A m \in {"pre", "code"} :
                (/\ Omits(HighlighterObject, m)
                 /\ ~NeedsBackslash(WrapperAttrs(m, HTMLCallAST[i]))) =>
                    ReadsBack(m, WrapperAttrs(m, HTMLCallAST[i]))

\* The default `code` wrapper wrote the class of the info string `a"b m`:
\* the value ends after the backslash, and `b` follows it as an attribute.
C30_Witness ==
    /\ HighlightedHTML
    /\ HighlighterObject = "sh.bare"
    /\ md = << <<"~~~a\"b m", "c", "~~~">> >>
    /\ \E p \in DOMAIN result.out :
           /\ result.out[p] = "<code"
           /\ ReadAttrs(SubSeq(result.out, p + 1, Len(result.out)))[1]
                  = <<"class", <<"language-", "a", "\\">> >>
           /\ ReadAttrs(SubSeq(result.out, p + 1, Len(result.out)))[2]
                  = <<"b", << >> >>

====
